---------------------------- MODULE Spec2Model ----------------------------
(***************************************************************************)
(* Yetria career-guidance platform: the response store, the score          *)
(* aggregation of the two prediction endpoints, the option-letter mapping  *)
(* and the feature-vector builder of PredictionService.                    *)
(*                                                                         *)
(* Conventions.                                                            *)
(*  - A Python str is a sequence of one-character strings; an option       *)
(*    letter is a sequence of character codes (ord), so chr/ord/upper are  *)
(*    computed.                                                            *)
(*  - A Python dict is a sequence of <<key, value>> pairs with distinct    *)
(*    keys, in insertion order.                                            *)
(*  - A float is an exact rational <<"float", n, d>> in lowest terms.      *)
(*    Option scores are whole points, for which float sums are exact and   *)
(*    round(x, 1) is round-half-to-even on the exact quotient.             *)
(***************************************************************************)
EXTENDS Integers, Sequences, FiniteSets, TLC

VARIABLES
    scenariooption,     \* table scenariooption: set of [scenariooptionid, scenarioid, score]
    scenario,           \* table scenario: scenarioid -> competencyid
    competency,         \* table competency: competencyid -> name
    scenarioresponse,   \* table scenarioresponse, committed rows: set of [userid, scenariooptionid]
    user_assessment_results, \* table user_assessment_results, committed: userid -> row or NoRow
    dialect,            \* the database behind DATABASE_URL: "sqlite" or "postgresql"
    model,              \* PredictionService.model, the classifier
    scaler,             \* PredictionService.scaler
    le_classes,         \* PredictionService.le.classes_
    grup_ortalamalari,  \* PredictionService.grup_ortalamalari
    feature_names,      \* PredictionService.feature_names
    pc,                 \* session -> where its request handler stands
    req,                \* session -> the request it serves
    txn,                \* session -> its open database transaction
    resp,               \* session -> the response it returned
    latest,             \* userid -> scenarioid -> the option of the last successful save naming it
    call,               \* the operation under way on a pure function, with its inputs and outputs
    log                 \* logger.warning records

refVars == <<scenariooption, scenario, competency>>
bundleVars == <<model, scaler, le_classes, grup_ortalamalari, feature_names>>
dbVars == <<scenarioresponse, user_assessment_results, dialect>>
sessionVars == <<pc, req, txn, resp, latest>>
vars == <<refVars, dbVars, bundleVars, sessionVars, call, log>>

\* Python None; every str, letter and number of the model is a tuple too
None == <<"NoneType">>

\* no letter
NoLetter == <<>>

----------------------------------------------------------------------------
(* Bounds *)

\* longest list of joined rows handed to an aggregation loop
MaxRows == 4
\* most options of one scenario
MaxOptions == 34
\* most entries of a user_scores dict handed to _validate_input
MaxDict == 2
\* most whitespace characters padded on either side of a key
MaxPad == 1
\* most responses in the payload of one POST /responses
MaxPayload == 2
\* most stored responses of the user the whole pipeline is run for
MaxStored == 3

----------------------------------------------------------------------------
(* Python str, dict and number helpers *)

IsSpace(c) == c = " "

RECURSIVE lstrip(_)
lstrip(s) == IF s # <<>> /\ IsSpace(Head(s)) THEN lstrip(Tail(s)) ELSE s

RECURSIVE rstrip(_)
rstrip(s) == IF s # <<>> /\ IsSpace(s[Len(s)]) THEN rstrip(SubSeq(s, 1, Len(s) - 1)) ELSE s

\* str.strip()
strip(s) == rstrip(lstrip(s))

\* str.replace(c, "")
replace_empty(s, c) == SelectSeq(s, LAMBDA x : x # c)

lower_char(c) == IF c = "A" THEN "a" ELSE IF c = "B" THEN "b" ELSE c

\* str.lower()
lower(s) == [i \in 1..Len(s) |-> lower_char(s[i])]

\* ord('A')
OrdA == 65

\* str.upper() on one character code: only a..z change
upper_code(c) == IF c >= 97 /\ c <= 122 THEN c - 32 ELSE c

DictKeys(d) == {d[i][1] : i \in 1..Len(d)}

DictIndex(d, k) == CHOOSE i \in 1..Len(d) : d[i][1] = k

\* dict.get(k, default)
DictGet(d, k, default) == IF k \in DictKeys(d) THEN d[DictIndex(d, k)][2] ELSE default

\* d[k] = v
DictSet(d, k, v) ==
    IF k \in DictKeys(d)
    THEN [d EXCEPT ![DictIndex(d, k)] = <<k, v>>]
    ELSE Append(d, <<k, v>>)

RECURSIVE Gcd(_, _)
Gcd(a, b) == IF b = 0 THEN a ELSE Gcd(b, a % b)

Abs(x) == IF x < 0 THEN -x ELSE x

\* the float n/d (d > 0), kept exactly and in lowest terms
Rat(n, d) == LET g == Gcd(Abs(n), d) IN <<"float", n \div g, d \div g>>

\* isinstance(v, (int, float))
IsNumber(v) == v[1] = "float"

\* round(total / count, 1) as a number of tenths
RoundHalfUpTenths(total, count) == (20 * total + count) \div (2 * count)

\* round(): the integer nearest to n/d (n >= 0, d > 0), the even one of two equally near
round_half_even(n, d) ==
    LET q == n \div d
        r == n % d
    IN  IF 2 * r < d THEN q
        ELSE IF 2 * r > d THEN q + 1
        ELSE IF q % 2 = 0 THEN q ELSE q + 1

round1_tenths(total, count) == round_half_even(10 * total, count)

round1(total, count) == Rat(round1_tenths(total, count), 10)

----------------------------------------------------------------------------
(* Score aggregation of POST /responses and GET /responses/result *)

\* responses.py:69  str(comp_name).strip().replace("'", "").replace('"', '')
comp_name_clean(name) == replace_empty(replace_empty(strip(name), "'"), "\"")

\* the key a row is grouped under
post_key(name) == comp_name_clean(name)
get_key(name) == name

\* the loop of responses.py:67-71 from row i on; path is "post" or "get"
RECURSIVE accumulate(_, _, _, _, _)
accumulate(rows, i, totals, counts, path) ==
    IF i > Len(rows) THEN [totals |-> totals, counts |-> counts]
    ELSE LET k == IF path = "post" THEN post_key(rows[i].name) ELSE get_key(rows[i].name)
         IN  accumulate(rows, i + 1,
                        DictSet(totals, k, DictGet(totals, k, 0) + rows[i].score),
                        DictSet(counts, k, DictGet(counts, k, 0) + 1),
                        path)

\* responses.py:65-73
post_user_scores(rows) ==
    LET tc == accumulate(rows, 1, <<>>, <<>>, "post")
    IN  [i \in 1..Len(tc.totals) |->
            <<tc.totals[i][1],
              round1(tc.totals[i][2], DictGet(tc.counts, tc.totals[i][1], 0))>>]

\* responses.py:160-166
get_user_scores(rows) ==
    LET tc == accumulate(rows, 1, <<>>, <<>>, "get")
    IN  [i \in 1..Len(tc.totals) |->
            <<tc.totals[i][1],
              Rat(tc.totals[i][2], DictGet(tc.counts, tc.totals[i][1], 0))>>]

----------------------------------------------------------------------------
(* Reference data of the deployment the store specifications run on *)

ScenarioOptionRows ==
    { [scenariooptionid |-> 1, scenarioid |-> 1, score |-> 1],
      [scenariooptionid |-> 2, scenarioid |-> 2, score |-> 2],
      [scenariooptionid |-> 3, scenarioid |-> 1, score |-> 4],
      [scenariooptionid |-> 4, scenarioid |-> 2, score |-> 5] }

ScenarioRows == (1 :> 1) @@ (2 :> 2) @@ (3 :> 2)

CompetencyRows == (1 :> <<"a">>) @@ (2 :> <<" ", "B">>)

CanonicalFeatures == << <<"a">>, <<"b">>, <<"c">> >>

RefInit ==
    /\ scenariooption = ScenarioOptionRows
    /\ scenario = ScenarioRows
    /\ competency = CompetencyRows

Users == {1, 2}
Sessions == {1, 2}

NoRow == <<>>
NoRequest == [endpoint |-> "none"]
NoTxn == [open |-> FALSE]
NoResponse == [status |-> 0]

\* the artifacts of the deployment: a classifier that splits on the first scaled
\* feature, a scaler, two occupations and their group averages
LoadedModel ==
    [kind |-> "stump", feature |-> 1, threshold |-> Rat(0, 1),
     low |-> <<Rat(3, 10), Rat(7, 10)>>, high |-> <<Rat(5, 8), Rat(3, 8)>>]

LoadedScaler ==
    [mean_ |-> <<Rat(3, 1), Rat(3, 1), Rat(3, 1)>>, scale_ |-> <<Rat(2, 1), Rat(1, 1), Rat(1, 1)>>]

LoadedClasses == <<"Doctor", "Engineer">>

LoadedAverages ==
    ("Doctor" :> << <<<<"a">>, Rat(4, 1)>>, <<<<"b">>, Rat(7, 2)>>, <<<<"c">>, Rat(3, 1)>> >>) @@
    ("Engineer" :> << <<<<"a">>, Rat(2, 1)>>, <<<<"b">>, Rat(9, 4)>>, <<<<"c">>, Rat(3, 1)>> >>)

BundleInit ==
    /\ model = LoadedModel
    /\ scaler = LoadedScaler
    /\ le_classes = LoadedClasses
    /\ grup_ortalamalari = LoadedAverages
    /\ feature_names = CanonicalFeatures

\* no request is being served and nothing has been stored yet
StoreInit ==
    /\ scenarioresponse = {}
    /\ user_assessment_results = [u \in Users |-> NoRow]
    /\ pc = [s \in Sessions |-> "idle"]
    /\ req = [s \in Sessions |-> NoRequest]
    /\ txn = [s \in Sessions |-> NoTxn]
    /\ resp = [s \in Sessions |-> NoResponse]
    /\ latest = [u \in Users |-> [sc \in DOMAIN ScenarioRows |-> 0]]

NoCall == [op |-> "none"]

----------------------------------------------------------------------------
(* SpecAgg: the two aggregation loops applied to every list of joined rows *)

NamePool == { <<"a">>, <<" ", "a", "'">>, <<"'", " ", "a">> }

ScorePool == {1, 2, 5}

RowPool == [score : ScorePool, name : NamePool]

RowSeqs == UNION { [1..n -> RowPool] : n \in 0..MaxRows }

InitAgg ==
    /\ RefInit /\ BundleInit /\ StoreInit /\ dialect = "sqlite"
    /\ log = <<>>
    /\ call \in { [op |-> "aggregate", phase |-> "init", rows |-> r, path |-> "none",
                   user_scores |-> <<>>, keyOf |-> <<>>] : r \in RowSeqs }

AggregatePost ==
    /\ call.op = "aggregate" /\ call.phase = "init"
    /\ call' = [call EXCEPT !.phase = "done", !.path = "post",
                            !.user_scores = post_user_scores(call.rows),
                            !.keyOf = [i \in 1..Len(call.rows) |-> post_key(call.rows[i].name)]]
    /\ UNCHANGED <<refVars, dbVars, bundleVars, sessionVars, log>>

AggregateGet ==
    /\ call.op = "aggregate" /\ call.phase = "init"
    /\ call' = [call EXCEPT !.phase = "done", !.path = "get",
                            !.user_scores = get_user_scores(call.rows),
                            !.keyOf = [i \in 1..Len(call.rows) |-> get_key(call.rows[i].name)]]
    /\ UNCHANGED <<refVars, dbVars, bundleVars, sessionVars, log>>

NextAgg == AggregatePost \/ AggregateGet

SpecAgg == InitAgg /\ [][NextAgg]_vars

RECURSIVE SetSum(_, _)
SetSum(I, f) == IF I = {} THEN 0 ELSE LET i == CHOOSE j \in I : TRUE IN f[i] + SetSum(I \ {i}, f)

\* the multiple of 0.1 nearest to total/count, the even one of two equally near
NearestTenth(total, count) ==
    Rat(CHOOSE t \in 0..(10 * total) :
            \/ 2 * Abs(10 * total - t * count) < count
            \/ 2 * Abs(10 * total - t * count) = count /\ t % 2 = 0,
        10)

AggDone(path) == call.op = "aggregate" /\ call.phase = "done" /\ call.path = path

\* the rows grouped under key k, by the name the aggregator cleans them to
RowsOfKey(k) == {i \in 1..Len(call.rows) : comp_name_clean(call.rows[i].name) = k}

RowScores == [i \in 1..Len(call.rows) |-> call.rows[i].score]

Canon(name) == strip(replace_empty(replace_empty(name, "'"), "\""))

\* C6: names that differ only by surrounding whitespace and stray quote characters
\* are grouped under one key by the aggregator.
C6_OneKeyPerName ==
    (call.op = "aggregate" /\ call.phase = "done") =>
        \A i, j \in 1..Len(call.rows) :
            Canon(call.rows[i].name) = Canon(call.rows[j].name)
                => call.keyOf[i] = call.keyOf[j]

----------------------------------------------------------------------------
(* Option letters: served by get_all_scenarios, resolved by                 *)
(* convert_option_letter_to_scenariooptionid, re-derived by the score map   *)
(* of transform_responses_to_scores                                         *)

RECURSIVE SortDescending(_)
SortDescending(S) ==
    IF S = {} THEN <<>>
    ELSE LET m == CHOOSE x \in S : \A y \in S : y <= x IN <<m>> \o SortDescending(S \ {m})

\* ORDER BY on a set of integers
RECURSIVE SortAscending(_)
SortAscending(S) ==
    IF S = {} THEN <<>>
    ELSE LET m == CHOOSE x \in S : \A y \in S : x <= y IN <<m>> \o SortAscending(S \ {m})

OptionIdsOf(opts, scenario_id) ==
    {o.scenariooptionid : o \in {x \in opts : x.scenarioid = scenario_id}}

\* .filter(scenarioid == scenario_id).order_by(scenariooptionid).all()
options_ordered(opts, scenario_id) == SortAscending(OptionIdsOf(opts, scenario_id))

Raise(e) == [ok |-> FALSE, error |-> e]
Return(v) == [ok |-> TRUE, value |-> v]

\* scenario_crud.py:29-37: the letters of one scenario, each with the option it labels
get_all_scenarios(opts, scenario_id) ==
    LET sorted == options_ordered(opts, scenario_id)
    IN  [i \in 1..Len(sorted) |-> [letter |-> <<OrdA + (i - 1)>>, option |-> sorted[i]]]

\* response_crud.py:12-41
convert_option_letter_to_scenariooptionid(opts, scenario_id, option_letter) ==
    LET options == options_ordered(opts, scenario_id)
    IN  IF options = <<>> THEN Raise("ValueError")
        ELSE IF option_letter = <<>> \/ Len(option_letter) # 1 THEN Raise("ValueError")
        ELSE LET letter == upper_code(option_letter[1])
                 option_index == letter - OrdA
             IN  IF option_index < 0 \/ option_index >= Len(options)
                 THEN Raise("ValueError")
                 ELSE Return(options[option_index + 1])

\* transformation_service.py:44-54: the letter the score map files an option under
score_map_letter(opts, optionid) ==
    LET opt == CHOOSE o \in opts : o.scenariooptionid = optionid
        scenario_options == options_ordered(opts, opt.scenarioid)
        option_index == (CHOOSE i \in 1..Len(scenario_options) : scenario_options[i] = optionid) - 1
    IN  <<OrdA + option_index>>

\* a scenariooption table: scenario 1 with n options, scenario 2 with two, their ids
\* in two blocks or interleaved
OptionTable(n, layout) ==
    IF layout = "block"
    THEN {[scenariooptionid |-> i, scenarioid |-> 1, score |-> 1] : i \in 1..n}
         \cup {[scenariooptionid |-> n + i, scenarioid |-> 2, score |-> 1] : i \in 1..2}
    ELSE {[scenariooptionid |-> 2 * i + 1, scenarioid |-> 1, score |-> 1] : i \in 1..n}
         \cup {[scenariooptionid |-> 2 * i, scenarioid |-> 2, score |-> 1] : i \in 1..2}

InitLetter ==
    /\ scenario = ScenarioRows
    /\ competency = CompetencyRows
    /\ BundleInit /\ StoreInit /\ dialect = "sqlite"
    /\ log = <<>>
    /\ \E n \in 1..MaxOptions, layout \in {"block", "interleaved"} :
          /\ scenariooption = OptionTable(n, layout)
          /\ \E sc \in {1, 2} :
                \E K \in 0..(Cardinality(OptionIdsOf(OptionTable(n, layout), sc)) - 1) :
                    call = [op |-> "letter", phase |-> "init", scenario_id |-> sc, K |-> K,
                            letter |-> NoLetter, resolved |-> Raise("unset"),
                            rederived |-> NoLetter]

\* GET /scenarios serves the K-th option of the scenario under its letter
ServeScenario ==
    /\ call.op = "letter" /\ call.phase = "init"
    /\ call' = [call EXCEPT !.phase = "served",
                   !.letter = get_all_scenarios(scenariooption, call.scenario_id)[call.K + 1].letter]
    /\ UNCHANGED <<refVars, dbVars, bundleVars, sessionVars, log>>

\* the client submits the served letter
SubmitLetter ==
    /\ call.op = "letter" /\ call.phase = "served"
    /\ call' = [call EXCEPT !.phase = "stored",
                   !.resolved = convert_option_letter_to_scenariooptionid(
                                    scenariooption, call.scenario_id, call.letter)]
    /\ UNCHANGED <<refVars, dbVars, bundleVars, sessionVars, log>>

\* the letter of the stored option is derived again
RederiveLetter ==
    /\ call.op = "letter" /\ call.phase = "stored"
    /\ call' = [call EXCEPT !.phase = "done",
                   !.rederived = IF call.resolved.ok
                                 THEN score_map_letter(scenariooption, call.resolved.value)
                                 ELSE NoLetter]
    /\ UNCHANGED <<refVars, dbVars, bundleVars, sessionVars, log>>

NextLetter == ServeScenario \/ SubmitLetter \/ RederiveLetter

SpecLetter == InitLetter /\ [][NextLetter]_vars

\* the option of the scenario with exactly K options of smaller id
KthOption(scenario_id, K) ==
    CHOOSE o \in OptionIdsOf(scenariooption, scenario_id) :
        Cardinality({p \in OptionIdsOf(scenariooption, scenario_id) : p < o}) = K

LetterRoundTrip ==
    /\ call.letter = <<OrdA + call.K>>
    /\ call.resolved = Return(KthOption(call.scenario_id, call.K))
    /\ call.rederived = call.letter

----------------------------------------------------------------------------
(* PredictionService._validate_input *)

\* a default of zero
ZeroDefault == Rat(0, 1)

\* prediction_service.py:92
DEFAULT_SCORE == Rat(1, 2)

\* prediction_service.py:81-84 without the lower-casing
StrippedEqual(user_key, feature) == strip(user_key) = strip(feature)

\* prediction_service.py:81-84  str(user_key).strip().lower() == feature.strip().lower()
fuzzy_equal(user_key, feature) == lower(strip(user_key)) = lower(strip(feature))

\* prediction_service.py:82-87: the value of the first key, in dict order, that matches
RECURSIVE fuzzy_lookup(_, _, _)
fuzzy_lookup(user_scores, i, feature) ==
    IF i > Len(user_scores) THEN None
    ELSE IF fuzzy_equal(user_scores[i][1], feature) THEN user_scores[i][2]
    ELSE fuzzy_lookup(user_scores, i + 1, feature)

\* prediction_service.py:76-87
resolve_score(user_scores, feature) ==
    LET score == DictGet(user_scores, feature, None)
    IN  IF score = None THEN fuzzy_lookup(user_scores, 1, feature) ELSE score

\* prediction_service.py:75-97 from feature i on
RECURSIVE validate_loop(_, _, _, _, _)
validate_loop(features, user_scores, i, ordered_scores, missing_keys) ==
    IF i > Len(features)
    THEN [ok |-> TRUE, value |-> ordered_scores, missing_keys |-> missing_keys]
    ELSE LET score == resolve_score(user_scores, features[i])
         IN  IF score = None
             THEN validate_loop(features, user_scores, i + 1,
                                Append(ordered_scores, DEFAULT_SCORE),
                                Append(missing_keys, features[i]))
             ELSE IF ~IsNumber(score) THEN Raise("ValueError")
             ELSE validate_loop(features, user_scores, i + 1,
                                Append(ordered_scores, score), missing_keys)

IsDict(x) == x # None

\* prediction_service.py:62-104
validate_input(features, user_scores) ==
    IF ~IsDict(user_scores) THEN Raise("TypeError")
    ELSE validate_loop(features, user_scores, 1, <<>>, <<>>)

\* prediction_service.py:99-101
validate_warnings(result) ==
    IF result.ok /\ result.missing_keys # <<>>
    THEN <<[level |-> "warning", missing_keys |-> result.missing_keys]>>
    ELSE <<>>

Pad(n) == [i \in 1..n |-> " "]

KeyPool == {Pad(l) \o c \o Pad(r) : l \in 0..MaxPad, r \in 0..MaxPad, c \in {<<"a">>, <<"A">>, <<"b">>}}

FeatureListPool == { << <<"a">>, <<"b">> >>, << <<"A", " ">>, <<"a">> >>, << <<"b">> >> }

\* the value of entry j: the number j, or a str
EntryValues(j) == {Rat(j, 1), <<"str", <<"x">>>>}

DictPool ==
    UNION { { d \in [1..n -> KeyPool \X (EntryValues(1) \cup EntryValues(2) \cup EntryValues(3)
                                          \cup EntryValues(4))] :
                /\ \A i \in 1..n : d[i][2] \in EntryValues(i)
                /\ \A i, j \in 1..n : i # j => d[i][1] # d[j][1] }
            : n \in 0..MaxDict }

InitValidate ==
    /\ RefInit /\ StoreInit /\ dialect = "sqlite"
    /\ model = LoadedModel /\ scaler = LoadedScaler /\ le_classes = LoadedClasses
    /\ grup_ortalamalari = LoadedAverages
    /\ log = <<>>
    /\ feature_names \in FeatureListPool
    /\ call \in { [op |-> "validate", phase |-> "init", user_scores |-> d,
                   result |-> Raise("unset")] : d \in DictPool \cup {None} }

ValidateInput ==
    /\ call.op = "validate" /\ call.phase = "init"
    /\ LET result == validate_input(feature_names, call.user_scores)
       IN  /\ call' = [call EXCEPT !.phase = "done", !.result = result]
           /\ log' = log \o validate_warnings(result)
    /\ UNCHANGED <<refVars, dbVars, bundleVars, sessionVars>>

NextValidate == ValidateInput

SpecValidate == InitValidate /\ [][NextValidate]_vars

Returned == call.op = "validate" /\ call.phase = "done" /\ call.result.ok

\* the input keys equal to the feature name after trimming and lower-casing
FuzzyKeys(feature) ==
    {k \in DictKeys(call.user_scores) : lower(strip(k)) = lower(strip(feature))}

Unmatched(feature) ==
    feature \notin DictKeys(call.user_scores) /\ FuzzyKeys(feature) = {}

\* the features the builder reported as missing: those of its warning, if it logged one
ReportedMissing ==
    IF log = <<>> THEN {}
    ELSE {log[Len(log)].missing_keys[i] : i \in 1..Len(log[Len(log)].missing_keys)}

\* C8: the returned vector has one entry per canonical feature, in canonical order:
\* the value under the exact name if present, else the value of an input key equal
\* to the name after trimming and lower-casing, else the neutral default 0.5.
C8_VectorByPolicy ==
    Returned =>
        /\ Len(call.result.value) = Len(feature_names)
        /\ \A i \in 1..Len(feature_names) :
              LET f == feature_names[i]
                  v == call.result.value[i]
              IN  IF f \in DictKeys(call.user_scores)
                  THEN v = DictGet(call.user_scores, f, None)
                  ELSE IF FuzzyKeys(f) # {}
                  THEN \E k \in FuzzyKeys(f) : v = DictGet(call.user_scores, k, None)
                  ELSE v = <<"float", 1, 2>>

\* a vector with one feature matched only after lower-casing and one defaulted
C8_Witness ==
    /\ Returned
    /\ \E i \in 1..Len(feature_names) :
          /\ feature_names[i] \notin DictKeys(call.user_scores)
          /\ \E k \in FuzzyKeys(feature_names[i]) :
                /\ strip(k) # strip(feature_names[i])
                /\ call.result.value[i] = DictGet(call.user_scores, k, None)
    /\ \E i \in 1..Len(feature_names) : Unmatched(feature_names[i])

\* C9: every feature with no exact and no fuzzy match holds the neutral default at
\* its position of a full-length vector, and the reported missing set is exactly
\* the set of those features.
C9_MissingReported ==
    Returned =>
        /\ Len(call.result.value) = Len(feature_names)
        /\ \A i \in 1..Len(feature_names) :
              Unmatched(feature_names[i]) =>
                  /\ call.result.value[i] = <<"float", 1, 2>>
                  /\ feature_names[i] \in ReportedMissing
        /\ ReportedMissing = {feature_names[i] : i \in {j \in 1..Len(feature_names) :
                                                          Unmatched(feature_names[j])}}

\* a vector with a defaulted feature next to a matched one
C9_Witness ==
    /\ Returned
    /\ \E i, j \in 1..Len(feature_names) :
          /\ Unmatched(feature_names[i])
          /\ ~Unmatched(feature_names[j])
          /\ feature_names[i] \in ReportedMissing

----------------------------------------------------------------------------
(* PredictionService.predict_and_analyze *)

RatSub(a, b) == Rat(a[2] * b[3] - b[2] * a[3], a[3] * b[3])
RatDiv(a, b) == Rat(a[2] * b[3], a[3] * b[2])
RatLess(a, b) == a[2] * b[3] < b[2] * a[3]

\* round(x) of a float of either sign, to no decimal
round0_float(x) ==
    IF x[2] < 0 THEN Rat(-round_half_even(-x[2], x[3]), 1)
    ELSE Rat(round_half_even(x[2], x[3]), 1)

\* round(x, 1) of a float of either sign
round1_float(x) ==
    IF x[2] < 0 THEN Rat(-round_half_even(-10 * x[2], x[3]), 10)
    ELSE Rat(round_half_even(10 * x[2], x[3]), 10)

\* round(prob * 100)
round_percent(prob) == round_half_even(100 * prob[2], prob[3])

\* StandardScaler.transform: (x - mean_) / scale_, a ValueError on a vector of another length
scaler_transform(x) ==
    IF Len(x) # Len(scaler.mean_) THEN Raise("ValueError")
    ELSE Return([i \in 1..Len(x) |-> RatDiv(RatSub(x[i], scaler.mean_[i]), scaler.scale_[i])])

\* the classifier's predict_proba(...)[0]
predict_proba(x) ==
    IF model.kind # "stump" THEN Raise("Exception")
    ELSE IF RatLess(model.threshold, x[model.feature]) THEN Return(model.high)
    ELSE Return(model.low)

\* the last index of a maximal probability
ArgmaxLast(probabilities) ==
    CHOOSE i \in 1..Len(probabilities) :
        /\ \A j \in 1..Len(probabilities) : ~RatLess(probabilities[i], probabilities[j])
        /\ \A j \in (i + 1)..Len(probabilities) : RatLess(probabilities[j], probabilities[i])

\* np.argmax: the first index of a maximal probability
argmax(probabilities) ==
    CHOOSE i \in 1..Len(probabilities) :
        /\ \A j \in 1..Len(probabilities) : ~RatLess(probabilities[i], probabilities[j])
        /\ \A j \in 1..(i - 1) : RatLess(probabilities[j], probabilities[i])

Min(a, b) == IF a < b THEN a ELSE b

\* prediction_service.py:121-124
build_uyum_skorlari(probabilities) ==
    [i \in 1..Min(Len(le_classes), Len(probabilities)) |->
        [meslek |-> le_classes[i], uyum |-> round_percent(probabilities[i])]]

\* a descending sort that puts the later of two equal entries first
RECURSIVE SortedTiesReversed(_)
SortedTiesReversed(seq) ==
    IF seq = <<>> THEN <<>>
    ELSE LET init == SortedTiesReversed(SubSeq(seq, 1, Len(seq) - 1))
             x == seq[Len(seq)]
             k == Cardinality({i \in 1..Len(init) : init[i].uyum > x.uyum})
         IN  SubSeq(init, 1, k) \o <<x>> \o SubSeq(init, k + 1, Len(init))

\* a stable sort by ascending percentage
RECURSIVE SortedAscending(_)
SortedAscending(seq) ==
    IF seq = <<>> THEN <<>>
    ELSE LET init == SortedAscending(SubSeq(seq, 1, Len(seq) - 1))
             x == seq[Len(seq)]
             k == Cardinality({i \in 1..Len(init) : init[i].uyum <= x.uyum})
         IN  SubSeq(init, 1, k) \o <<x>> \o SubSeq(init, k + 1, Len(init))

\* sorted(..., key=lambda x: x['uyum'], reverse=True): stable, descending
RECURSIVE sorted_by_uyum(_)
sorted_by_uyum(seq) ==
    IF seq = <<>> THEN <<>>
    ELSE LET init == sorted_by_uyum(SubSeq(seq, 1, Len(seq) - 1))
             x == seq[Len(seq)]
             k == Cardinality({i \in 1..Len(init) : init[i].uyum >= x.uyum})
         IN  SubSeq(init, 1, k) \o <<x>> \o SubSeq(init, k + 1, Len(init))

\* a comparison default of zero
ZeroComparisonDefault == Rat(0, 1)

\* prediction_service.py:146 and 150
COMPARISON_DEFAULT == Rat(1, 2)

\* prediction_service.py:134-166: the comparison row of one feature
comparison_row(user_scores, meslek_ortalamalari, feature) ==
    LET found == resolve_score(user_scores, feature)
        user_score == IF found = None THEN COMPARISON_DEFAULT ELSE found
        grup_ort == DictGet(meslek_ortalamalari, feature, COMPARISON_DEFAULT)
    IN  IF ~IsNumber(user_score) \/ ~IsNumber(grup_ort)
        THEN [yetkinlik |-> feature, kullanici_skoru |-> Rat(1, 2),
              grup_ortalamasi |-> Rat(1, 2), fark |-> Rat(0, 1)]
        ELSE [yetkinlik |-> feature,
              kullanici_skoru |-> round1_float(user_score),
              grup_ortalamasi |-> round1_float(grup_ort),
              fark |-> round1_float(RatSub(user_score, grup_ort))]

ErrorResult(msg) == [error |-> msg]
HasError(result) == "error" \in DOMAIN result

\* prediction_service.py:126-175
analyze(user_scores, probabilities) ==
    LET winner_index == argmax(probabilities)
    IN  IF winner_index > Len(le_classes) THEN ErrorResult("Error building comparison")
        ELSE IF le_classes[winner_index] \notin DOMAIN grup_ortalamalari
        THEN ErrorResult("Error building comparison")
        ELSE LET kazanan_meslek == le_classes[winner_index]
                 meslek_ortalamalari == grup_ortalamalari[kazanan_meslek]
             IN  [uyum_skorlari |-> sorted_by_uyum(build_uyum_skorlari(probabilities)),
                  kazanan_meslek |-> kazanan_meslek,
                  yetkinlik_karsilastirmasi |->
                      [i \in 1..Len(feature_names) |->
                          comparison_row(user_scores, meslek_ortalamalari, feature_names[i])]]

\* predict_and_analyze without the try of prediction_service.py:108-112
PredictUncaught(user_scores) ==
    LET validated == validate_input(feature_names, user_scores)
    IN  IF ~validated.ok THEN Raise(validated.error)
        ELSE LET scores_scaled == scaler_transform(validated.value)
             IN  IF ~scores_scaled.ok THEN ErrorResult("Model prediction error")
                 ELSE LET probabilities == predict_proba(scores_scaled.value)
                      IN  IF ~probabilities.ok THEN ErrorResult("Model prediction error")
                          ELSE analyze(user_scores, probabilities.value)

\* prediction_service.py:106-175
predict_and_analyze(user_scores) ==
    LET validated == validate_input(feature_names, user_scores)
    IN  IF ~validated.ok THEN ErrorResult(validated.error)
        ELSE LET scores_scaled == scaler_transform(validated.value)
             IN  IF ~scores_scaled.ok THEN ErrorResult("Model prediction error")
                 ELSE LET probabilities == predict_proba(scores_scaled.value)
                      IN  IF ~probabilities.ok THEN ErrorResult("Model prediction error")
                          ELSE analyze(user_scores, probabilities.value)

\* the warnings predict_and_analyze logs on the way
predict_warnings(user_scores) == validate_warnings(validate_input(feature_names, user_scores))

----------------------------------------------------------------------------
(* The response store: save_user_responses and the queries of the endpoints *)

Row(user_id, optionid) == [userid |-> user_id, scenariooptionid |-> optionid]

OptionRow(optionid) == CHOOSE o \in scenariooption : o.scenariooptionid = optionid

ScenarioOfOption(optionid) == OptionRow(optionid).scenarioid

\* the first response of each scenario_id
RECURSIVE UniqueFirstWins(_, _, _)
UniqueFirstWins(responses, i, unique) ==
    IF i > Len(responses) THEN unique
    ELSE UniqueFirstWins(responses, i + 1,
                         IF responses[i].scenario_id \in DictKeys(unique) THEN unique
                         ELSE DictSet(unique, responses[i].scenario_id, responses[i]))

\* response_crud.py:58-60: the last response of each scenario_id, in first-seen order
RECURSIVE unique_responses_from(_, _, _)
unique_responses_from(responses, i, unique) ==
    IF i > Len(responses) THEN unique
    ELSE unique_responses_from(responses, i + 1,
                               DictSet(unique, responses[i].scenario_id, responses[i]))

unique_responses(responses) == unique_responses_from(responses, 1, <<>>)

\* a DELETE of every response of the user
DeleteEveryResponseOfUser(rows, user_id, scenario_id) == {r \in rows : r.userid = user_id}

\* response_crud.py:66-74: the rows one DELETE statement removes from the rows it sees
delete_targets(rows, user_id, scenario_id) ==
    {r \in rows : r.userid = user_id
                  /\ r.scenariooptionid \in OptionIdsOf(scenariooption, scenario_id)}

\* response_crud.py:78-85: the option of every unique response, or the first error
resolve_responses(unique) ==
    LET resolved == [i \in 1..Len(unique) |->
                        convert_option_letter_to_scenariooptionid(
                            scenariooption, unique[i][2].scenario_id, unique[i][2].option_letter)]
    IN  IF \E i \in 1..Len(unique) : ~resolved[i].ok
        THEN Raise("ValueError")
        ELSE Return([i \in 1..Len(unique) |-> resolved[i].value])

\* the INSERTs of a batch whose DELETEs were never issued
InsertWithoutDelete(committed, deleted, unique, user_id) ==
    LET resolved == resolve_responses(unique)
    IN  IF ~resolved.ok THEN [ok |-> FALSE, error |-> "ValueError", table |-> committed]
        ELSE LET db_responses == {Row(user_id, resolved.value[i]) : i \in 1..Len(unique)}
             IN  IF db_responses \cap committed # {}
                 THEN [ok |-> FALSE, error |-> "IntegrityError", table |-> committed]
                 ELSE [ok |-> TRUE, value |-> Len(unique),
                       table |-> committed \cup db_responses,
                       options |-> resolved.value]

\* the same with no rollback before the error is raised: the DELETEs stay
RaiseWithoutRollback(committed, deleted, unique, user_id) ==
    LET resolved == resolve_responses(unique)
    IN  IF ~resolved.ok THEN [ok |-> FALSE, error |-> "ValueError", table |-> committed \ deleted]
        ELSE LET db_responses == {Row(user_id, resolved.value[i]) : i \in 1..Len(unique)}
             IN  IF db_responses \cap (committed \ deleted) # {}
                 THEN [ok |-> FALSE, error |-> "IntegrityError", table |-> committed \ deleted]
                 ELSE [ok |-> TRUE, value |-> Len(unique),
                       table |-> (committed \ deleted) \cup db_responses,
                       options |-> resolved.value]

\* response_crud.py:87-96: flush the INSERTs and commit, or roll back and raise.
\* committed are the committed rows, deleted those this transaction has deleted.
insert_and_commit(committed, deleted, unique, user_id) ==
    LET resolved == resolve_responses(unique)
    IN  IF ~resolved.ok THEN [ok |-> FALSE, error |-> "ValueError", table |-> committed]
        ELSE LET db_responses == {Row(user_id, resolved.value[i]) : i \in 1..Len(unique)}
             IN  IF db_responses \cap (committed \ deleted) # {}
                 THEN [ok |-> FALSE, error |-> "IntegrityError", table |-> committed]
                 ELSE [ok |-> TRUE, value |-> Len(unique),
                       table |-> (committed \ deleted) \cup db_responses,
                       options |-> resolved.value]

\* a save that leaves its transaction open: nothing is committed when it returns
SaveUncommitted(committed, responses, user_id) ==
    LET unique == unique_responses(responses)
        deleted == UNION {delete_targets(committed, user_id, unique[i][1]) : i \in 1..Len(unique)}
    IN  [insert_and_commit(committed, deleted, unique, user_id) EXCEPT !.table = committed]

\* response_crud.py:44-96 run without interruption
save_user_responses(committed, responses, user_id) ==
    LET unique == unique_responses(responses)
        deleted == UNION {delete_targets(committed, user_id, unique[i][1]) : i \in 1..Len(unique)}
    IN  insert_and_commit(committed, deleted, unique, user_id)

\* responses.py:49-60 on the committed rows: one joined row per stored response
joined_row(r) ==
    LET o == OptionRow(r.scenariooptionid)
    IN  [score |-> o.score, name |-> competency[scenario[o.scenarioid]],
         scenario_id |-> o.scenarioid, option_id |-> o.scenariooptionid]

\* the orders a query without ORDER BY may return the rows of a user in
RowOrders(committed, user_id) ==
    LET ids == {r.scenariooptionid : r \in {x \in committed : x.userid = user_id}}
    IN  { [i \in 1..Len(order) |-> joined_row(Row(user_id, order[i]))] :
            order \in {SortAscending(ids), SortDescending(ids)} }

\* assessment_result_crud.py:36-81: the row stored for a prediction result
assessment_row(prediction_result) ==
    [recommended_occupation |-> prediction_result.kazanan_meslek,
     occupation_compatibility_scores |-> prediction_result.uyum_skorlari]

\* the same with a failed write of the result failing the request
PostPredictStrict(rows, stored_result, save_fails) ==
    LET user_scores == post_user_scores(rows)
        prediction_result == predict_and_analyze(user_scores)
    IN  IF HasError(prediction_result)
        THEN [status |-> 400, body |-> prediction_result, fed |-> user_scores,
              assessment |-> stored_result]
        ELSE IF save_fails
        THEN [status |-> 500, body |-> ErrorResult("Error processing responses"),
              fed |-> user_scores, assessment |-> stored_result]
        ELSE [status |-> 200, body |-> prediction_result, fed |-> user_scores,
              assessment |-> assessment_row(prediction_result)]

\* responses.py:64-92 once the batch is saved: the response to the client and the
\* assessment row left behind; rows are the joined rows the query returned
post_predict(rows, stored_result, save_fails) ==
    LET user_scores == post_user_scores(rows)
        prediction_result == predict_and_analyze(user_scores)
    IN  IF HasError(prediction_result)
        THEN [status |-> 400, body |-> prediction_result, fed |-> user_scores,
              assessment |-> stored_result]
        ELSE [status |-> 200, body |-> prediction_result, fed |-> user_scores,
              assessment |-> IF save_fails THEN stored_result
                             ELSE assessment_row(prediction_result)]

\* the handler of GET /responses/result without its check for no rows
GetPredictAnyRows(rows) ==
    LET user_scores == get_user_scores(rows)
        prediction_result == predict_and_analyze(user_scores)
    IN  [status |-> IF HasError(prediction_result) THEN 400 ELSE 200,
         body |-> prediction_result, fed |-> user_scores]

\* responses.py:155-171
get_predict(rows) ==
    IF rows = <<>>
    THEN [status |-> 400, body |-> ErrorResult("No responses found for user"), fed |-> None]
    ELSE LET user_scores == get_user_scores(rows)
             prediction_result == predict_and_analyze(user_scores)
         IN  [status |-> IF HasError(prediction_result) THEN 400 ELSE 200,
              body |-> prediction_result, fed |-> user_scores]

\* the option a response names: the one of its scenario with as many options of
\* smaller id as the letter is places after A, in either case
NamedOption(response) ==
    LET ids == OptionIdsOf(scenariooption, response.scenario_id)
        c == response.option_letter[1]
        K == IF c >= 97 THEN c - 97 ELSE c - 65
    IN  CHOOSE o \in ids : Cardinality({p \in ids : p < o}) = K

\* the last response of a payload for a scenario
LastResponseFor(responses, scenario_id) ==
    responses[CHOOSE i \in 1..Len(responses) :
                 /\ responses[i].scenario_id = scenario_id
                 /\ \A j \in (i + 1)..Len(responses) : responses[j].scenario_id # scenario_id]

ScenarioIds(responses) == {responses[i].scenario_id : i \in 1..Len(responses)}

\* latest after a successful save of the payload by the user
LatestAfter(user_id, responses) ==
    [latest EXCEPT ![user_id] =
        [sc \in DOMAIN ScenarioRows |->
            IF sc \in ScenarioIds(responses)
            THEN NamedOption(LastResponseFor(responses, sc))
            ELSE latest[user_id][sc]]]

----------------------------------------------------------------------------
(* The endpoints of responses.py, each handler run without interruption *)

\* A and b of scenario 1, B of scenario 2, and C, out of range for two options
ResponsePool ==
    { [scenario_id |-> 1, option_letter |-> <<65>>],
      [scenario_id |-> 1, option_letter |-> <<98>>],
      [scenario_id |-> 2, option_letter |-> <<66>>],
      [scenario_id |-> 2, option_letter |-> <<67>>] }

PayloadPool == UNION { [1..n -> ResponsePool] : n \in 0..MaxPayload }

StoredOptions(committed, user_id) ==
    {r.scenariooptionid : r \in {x \in committed : x.userid = user_id}}

\* the batch restricted to its own scenarios, as transform_responses_to_scores sees it
BatchRowsOnly(committed, user_id, responses) ==
    { SelectSeq(rows, LAMBDA r : r.scenario_id \in ScenarioIds(responses)) :
        rows \in RowOrders(committed, user_id) }

\* responses.py:47-62: the rows the handler reads after saving the batch
post_rows(committed, user_id, responses) == RowOrders(committed, user_id)

\* POST /responses, responses.py:26-100
PostResponses(s, u, responses) ==
    /\ pc[s] = "idle"
    /\ LET saved == save_user_responses(scenarioresponse, responses, u)
           request == [endpoint |-> "post", user |-> u, responses |-> <<>>,
                       scenario_ids |-> ScenarioIds(responses),
                       before |-> StoredOptions(scenarioresponse, u)]
       IN  /\ req' = [req EXCEPT ![s] = request]
           /\ pc' = [pc EXCEPT ![s] = "done"]
           /\ IF ~saved.ok
              THEN /\ resp' = [resp EXCEPT ![s] = [status |-> 500, body |-> ErrorResult(saved.error),
                                                    fed |-> None]]
                   /\ log' = <<>>
                   /\ UNCHANGED <<scenarioresponse, user_assessment_results, latest>>
              ELSE /\ scenarioresponse' = saved.table
                   /\ latest' = LatestAfter(u, responses)
                   /\ \E rows \in post_rows(saved.table, u, responses), save_fails \in BOOLEAN :
                         LET out == post_predict(rows, user_assessment_results[u], save_fails)
                         IN  /\ resp' = [resp EXCEPT ![s] = [status |-> out.status,
                                                              body |-> out.body, fed |-> out.fed]]
                             /\ user_assessment_results' =
                                    [user_assessment_results EXCEPT ![u] = out.assessment]
                             /\ log' = predict_warnings(out.fed)
    /\ UNCHANGED <<refVars, bundleVars, dialect, txn, call>>

\* GET /responses/result, responses.py:134-175
GetResult(s, u) ==
    /\ pc[s] = "idle"
    /\ \E rows \in RowOrders(scenarioresponse, u) :
          LET out == get_predict(rows)
          IN  /\ resp' = [resp EXCEPT ![s] = out]
              /\ log' = IF out.fed = None THEN <<>> ELSE predict_warnings(out.fed)
    /\ req' = [req EXCEPT ![s] = [endpoint |-> "get", user |-> u, responses |-> <<>>,
                                  scenario_ids |-> {},
                                  before |-> StoredOptions(scenarioresponse, u)]]
    /\ pc' = [pc EXCEPT ![s] = "done"]
    /\ UNCHANGED <<refVars, bundleVars, dbVars, txn, latest, call>>

\* the client has its response; the session serves the next request
Respond(s) ==
    /\ pc[s] = "done"
    /\ pc' = [pc EXCEPT ![s] = "idle"]
    /\ req' = [req EXCEPT ![s] = NoRequest]
    /\ resp' = [resp EXCEPT ![s] = NoResponse]
    /\ log' = <<>>
    /\ UNCHANGED <<refVars, bundleVars, dbVars, txn, latest, call>>

Init ==
    /\ RefInit /\ BundleInit /\ StoreInit
    /\ dialect = "sqlite"
    /\ call = NoCall
    /\ log = <<>>

Next ==
    \/ \E u \in Users, responses \in PayloadPool : PostResponses(1, u, responses)
    \/ \E u \in Users : GetResult(1, u)
    \/ Respond(1)

\* requests served one after another
Spec == Init /\ [][Next]_vars

\* the options the user has stored for the scenario
StoredFor(user_id, scenario_id) ==
    {o \in StoredOptions(scenarioresponse, user_id) : ScenarioOfOption(o) = scenario_id}

\* C1: after any sequence of successful saves, a user holds at most one response per
\* scenario, and it is the option named by the most recent save whose payload
\* contained the scenario (the last one named, if the payload named several).
C1_LastWriteWins ==
    \A u \in Users, sc \in DOMAIN ScenarioRows :
        StoredFor(u, sc) = IF latest[u][sc] = 0 THEN {} ELSE {latest[u][sc]}

\* a save has replaced the option the user had stored for a scenario by another one
C1_Witness ==
    /\ pc[1] = "done" /\ req[1].endpoint = "post" /\ resp[1].status = 200
    /\ \E sc \in req[1].scenario_ids, o \in req[1].before :
          /\ ScenarioOfOption(o) = sc
          /\ o # latest[req[1].user][sc]
          /\ StoredFor(req[1].user, sc) = {latest[req[1].user][sc]}

\* POST /responses has saved its batch and called the predictor
PostPredicted == pc[1] = "done" /\ req[1].endpoint = "post" /\ resp[1].fed # None

\* the key POST /responses groups a stored option under
KeyOfOption(o) == comp_name_clean(competency[scenario[ScenarioOfOption(o)]])

OptionsOfKey(user_id, k) == {o \in StoredOptions(scenarioresponse, user_id) : KeyOfOption(o) = k}

OptionScores == [o \in {x.scenariooptionid : x \in scenariooption} |-> OptionRow(o).score]

\* C4: the scores POST /responses feeds to the predictor are computed from all the
\* responses the user has stored once the batch is saved, those of earlier batches
\* included: one key per competency of a stored response, holding the rounded mean
\* of the scores of all stored options of that competency.
C4_FedFromAllStored ==
    PostPredicted =>
        LET u == req[1].user
        IN  /\ DictKeys(resp[1].fed) = {KeyOfOption(o) : o \in StoredOptions(scenarioresponse, u)}
            /\ \A k \in DictKeys(resp[1].fed) :
                  DictGet(resp[1].fed, k, None)
                      = NearestTenth(SetSum(OptionsOfKey(u, k), OptionScores),
                                     Cardinality(OptionsOfKey(u, k)))

\* a batch that answers one scenario, saved for a user who had answered another
\* one before: the earlier answer's competency is among the scores fed
C4_Witness ==
    /\ PostPredicted /\ resp[1].status = 200
    /\ req[1].scenario_ids # {}
    /\ \E o \in StoredOptions(scenarioresponse, req[1].user) :
          /\ ScenarioOfOption(o) \notin req[1].scenario_ids
          /\ KeyOfOption(o) \in DictKeys(resp[1].fed)

\* a handler has predicted for a user who has no stored response
PredictsFromNothing(endpoint) ==
    /\ pc[1] = "done" /\ req[1].endpoint = endpoint
    /\ StoredOptions(scenarioresponse, req[1].user) = {}
    /\ req[1].before = {}
    /\ req[1].scenario_ids = {}

\* a result with one score per occupation, a winner among them and one comparison
\* row per canonical feature, in canonical order
WellFormed(body) ==
    /\ DOMAIN body = {"uyum_skorlari", "kazanan_meslek", "yetkinlik_karsilastirmasi"}
    /\ {body.uyum_skorlari[i].meslek : i \in 1..Len(body.uyum_skorlari)}
           = {le_classes[i] : i \in 1..Len(le_classes)}
    /\ Len(body.uyum_skorlari) = Len(le_classes)
    /\ \A i \in 1..Len(body.uyum_skorlari) : body.uyum_skorlari[i].uyum \in 0..100
    /\ \E i \in 1..Len(le_classes) : body.kazanan_meslek = le_classes[i]
    /\ Len(body.yetkinlik_karsilastirmasi) = Len(feature_names)
    /\ \A i \in 1..Len(feature_names) :
          body.yetkinlik_karsilastirmasi[i].yetkinlik = feature_names[i]

\* every canonical feature was reported missing and shows the neutral default
AllDefaulted(body) ==
    /\ ReportedMissing = {feature_names[i] : i \in 1..Len(feature_names)}
    /\ \A i \in 1..Len(feature_names) :
          body.yetkinlik_karsilastirmasi[i].kullanici_skoru = <<"float", 1, 2>>

DefaultedResult ==
    /\ resp[1].status = 200
    /\ WellFormed(resp[1].body)
    /\ resp[1].fed = <<>>
    /\ AllDefaulted(resp[1].body)

\* C10 as stated: for a user with no stored response, POST /responses with an empty
\* batch and GET /responses/result both return a well-formed result with every
\* canonical feature defaulted, and no error.
C10_EmptyNeverErrors ==
    (PredictsFromNothing("post") \/ PredictsFromNothing("get")) => DefaultedResult

\* C10 as the code has it: for a user with no stored response, POST /responses with
\* an empty batch returns a well-formed result with every canonical feature
\* defaulted, and GET /responses/result answers 400, No responses found for user.
C10_EmptyPostDefaultsGetRefuses ==
    /\ PredictsFromNothing("post") => DefaultedResult
    /\ PredictsFromNothing("get") =>
          /\ resp[1].status = 400
          /\ resp[1].body = ErrorResult("No responses found for user")

\* an empty batch posted by a user with no stored response has been answered
C10_Witness == PredictsFromNothing("post") /\ resp[1].status = 200


----------------------------------------------------------------------------
(* Two requests in flight: save_user_responses one statement at a time, each   *)
(* request on its own session (core/database.py:31-35).  A session's DELETEs   *)
(* stay invisible to the others until it commits.  SQLite lets one session     *)
(* write at a time; PostgreSQL, at READ COMMITTED, locks the rows a statement  *)
(* touches.  A statement that has to wait runs once the lock is released, or   *)
(* the wait ends in an error.                                                  *)

\* the user whose requests overlap
ConcUsers == {1}

Dialects == {"sqlite", "postgresql"}

\* the batches sent while another request is in flight: no answer, or one for scenario 1
ConcPayloads ==
    {responses \in PayloadPool :
        Len(responses) <= 1 /\ \A i \in DOMAIN responses : responses[i].scenario_id = 1}

\* the request once its batch is saved or refused
Settled(request) == [request EXCEPT !.responses = <<>>, !.scenario_ids = {}, !.before = {}]

\* response_crud.py:66-74 cannot run yet: another session holds what it needs
Blocked(s) ==
    LET unique == unique_responses(req[s].responses)
        targets == delete_targets(scenarioresponse \ txn[s].deleted, req[s].user,
                                  unique[txn[s].next][1])
    IN  \E w \in Sessions \ {s} :
            /\ txn[w].open
            /\ IF dialect = "sqlite" THEN txn[w].locked
               ELSE targets \cap txn[w].deleted # {}

\* response_crud.py:44-60: the handler enters save_user_responses
BeginSave(s, u, responses) ==
    /\ pc[s] = "idle"
    /\ req' = [req EXCEPT ![s] = [endpoint |-> "post", user |-> u, responses |-> responses,
                                  scenario_ids |-> ScenarioIds(responses),
                                  before |-> StoredOptions(scenarioresponse, u)]]
    /\ txn' = [txn EXCEPT ![s] = [open |-> TRUE, next |-> 1, deleted |-> {}, locked |-> FALSE]]
    /\ pc' = [pc EXCEPT ![s] = IF responses = <<>> THEN "insert" ELSE "delete"]
    /\ UNCHANGED <<refVars, bundleVars, dbVars, resp, latest, call, log>>

\* response_crud.py:62-74: the DELETE of one scenario of the batch
DeleteStep(s) ==
    /\ pc[s] = "delete"
    /\ ~Blocked(s)
    /\ LET unique == unique_responses(req[s].responses)
           targets == delete_targets(scenarioresponse \ txn[s].deleted, req[s].user,
                                     unique[txn[s].next][1])
       IN  /\ txn' = [txn EXCEPT ![s] = [open |-> TRUE, next |-> txn[s].next + 1,
                                         deleted |-> txn[s].deleted \cup targets,
                                         locked |-> TRUE]]
           /\ pc' = [pc EXCEPT ![s] = IF txn[s].next = Len(unique) THEN "insert" ELSE "delete"]
    /\ UNCHANGED <<refVars, bundleVars, dbVars, req, resp, latest, call, log>>

\* response_crud.py:93-96 and responses.py:94-100: the wait for a lock ended in an
\* error; the session rolls back and the handler answers 500
LockTimeout(s) ==
    /\ pc[s] = "delete"
    /\ Blocked(s)
    /\ txn' = [txn EXCEPT ![s] = NoTxn]
    /\ req' = [req EXCEPT ![s] = Settled(req[s])]
    /\ resp' = [resp EXCEPT ![s] = [status |-> 500, body |-> ErrorResult("OperationalError"),
                                    fed |-> None]]
    /\ pc' = [pc EXCEPT ![s] = "done"]
    /\ UNCHANGED <<refVars, bundleVars, dbVars, latest, call, log>>

\* response_crud.py:76-96: build the rows, flush the INSERTs and commit
InsertCommit(s) ==
    /\ pc[s] = "insert"
    /\ LET u == req[s].user
           saved == insert_and_commit(scenarioresponse, txn[s].deleted,
                                      unique_responses(req[s].responses), u)
       IN  IF saved.ok
           THEN /\ scenarioresponse' = saved.table
                /\ latest' = LatestAfter(u, req[s].responses)
                /\ pc' = [pc EXCEPT ![s] = "predict"]
                /\ UNCHANGED resp
           ELSE /\ resp' = [resp EXCEPT ![s] = [status |-> 500, body |-> ErrorResult(saved.error),
                                                 fed |-> None]]
                /\ pc' = [pc EXCEPT ![s] = "done"]
                /\ UNCHANGED <<scenarioresponse, latest>>
    /\ txn' = [txn EXCEPT ![s] = NoTxn]
    /\ req' = [req EXCEPT ![s] = Settled(req[s])]
    /\ UNCHANGED <<refVars, bundleVars, user_assessment_results, dialect, call, log>>

\* responses.py:47-92: read the user's rows, predict, keep the result
Predict(s) ==
    /\ pc[s] = "predict"
    /\ \E rows \in RowOrders(scenarioresponse, req[s].user), save_fails \in BOOLEAN :
          LET out == post_predict(rows, user_assessment_results[req[s].user], save_fails)
          IN  /\ resp' = [resp EXCEPT ![s] = [status |-> out.status, body |-> out.body,
                                               fed |-> out.fed]]
              /\ user_assessment_results' =
                     [user_assessment_results EXCEPT ![req[s].user] = out.assessment]
              /\ log' = predict_warnings(out.fed)
    /\ pc' = [pc EXCEPT ![s] = "done"]
    /\ UNCHANGED <<refVars, bundleVars, scenarioresponse, dialect, req, txn, latest, call>>

InitConc ==
    /\ RefInit /\ BundleInit /\ StoreInit
    /\ dialect \in Dialects
    /\ call = NoCall
    /\ log = <<>>

NextConc ==
    \E s \in Sessions :
        \/ \E u \in ConcUsers, responses \in ConcPayloads : BeginSave(s, u, responses)
        \/ DeleteStep(s)
        \/ LockTimeout(s)
        \/ InsertCommit(s)
        \/ Predict(s)
        \/ \E u \in ConcUsers : GetResult(s, u)
        \/ Respond(s)

\* requests of one user served at the same time
SpecConc == InitConc /\ [][NextConc]_vars


\* C2: under any interleaving of two concurrent saves by one user that answer the
\* same scenario with different options, the committed rows hold at most one
\* response of the user for the scenario.
C2_AtMostOneCommitted ==
    \A u \in Users, sc \in DOMAIN ScenarioRows : Cardinality(StoredFor(u, sc)) <= 1

\* C3: a read of a user's stored responses that runs while a save of that user is
\* in flight sees, for each scenario of the payload, the old response or the new
\* one: at most one response, and one if one existed when the save began.
C3_ReadSeesOldOrNew ==
    [][\A s \in Sessions :
          (pc[s] = "idle" /\ pc'[s] = "done" /\ req'[s].endpoint = "get") =>
              \A w \in Sessions \ {s} :
                  (pc[w] \in {"delete", "insert"} /\ req[w].user = req'[s].user) =>
                      \A sc \in req[w].scenario_ids :
                          LET seen == {o \in req'[s].before : ScenarioOfOption(o) = sc}
                              old == {o \in req[w].before : ScenarioOfOption(o) = sc}
                          IN  /\ Cardinality(seen) <= 1
                              /\ old # {} => seen # {}]_vars

----------------------------------------------------------------------------
(* PredictionService.predict_and_analyze on the bundles the loader can hand it. *)
(* Every number of the pools is a binary fraction or far from a rounding tie,   *)
(* so that the exact arithmetic of the model is the float arithmetic of the     *)
(* code.                                                                        *)

\* a classifier of three classes: no clear winner below the threshold, a tie above
ThreeClassModel ==
    [kind |-> "stump", feature |-> 1, threshold |-> Rat(0, 1),
     low |-> <<Rat(333, 1000), Rat(333, 1000), Rat(334, 1000)>>,
     high |-> <<Rat(1, 5), Rat(2, 5), Rat(2, 5)>>]

\* a classifier whose predict_proba raises
RaisingModel == [kind |-> "raising"]

ModelPool == {LoadedModel, ThreeClassModel, RaisingModel}

\* a scaler fitted on two features: transform raises on a vector of three
TwoFeatureScaler == [mean_ |-> <<Rat(3, 1), Rat(3, 1)>>, scale_ |-> <<Rat(2, 1), Rat(1, 1)>>]

ScalerPool == {LoadedScaler, TwoFeatureScaler}

ThreeClasses == <<"Doctor", "Engineer", "Teacher">>

ClassesPool == {LoadedClasses, ThreeClasses}

\* group averages of three occupations
ThreeClassAverages ==
    LoadedAverages @@
    ("Teacher" :> << <<<<"a">>, Rat(5, 2)>>, <<<<"b">>, Rat(3, 1)>>, <<<<"c">>, Rat(7, 4)>> >>)

\* the same with feature b absent from the row of Teacher
DriftedAverages ==
    LoadedAverages @@
    ("Teacher" :> << <<<<"a">>, Rat(5, 2)>>, <<<<"c">>, Rat(7, 4)>> >>)

AveragesPool == {LoadedAverages, ThreeClassAverages, DriftedAverages}

\* the score maps handed to predict_and_analyze: the empty one, exact keys in two
\* insertion orders, keys that match only after trimming and lower-casing, and a
\* score that is a str
ScoreMaps ==
    { <<>>,
      << <<<<"a">>, Rat(1, 1)>> >>,
      << <<<<"a">>, Rat(5, 1)>>, <<<<"b">>, Rat(2, 1)>> >>,
      << <<<<"b">>, Rat(2, 1)>>, <<<<"a">>, Rat(5, 1)>> >>,
      << <<<<"A", " ">>, Rat(4, 1)>>, <<<<"c">>, Rat(7, 2)>> >>,
      << <<<<" ", "B">>, Rat(5, 2)>>, <<<<"a">>, Rat(2, 1)>> >>,
      << <<<<"a">>, <<"str", <<"x">>>> >> >>,
      << <<<<"B">>, <<"str", <<"x">>>> >>, <<<<"a">>, Rat(4, 1)>> >> }

\* a call of predict_and_analyze about to run
PredictCall(d) ==
    [op |-> "predict", phase |-> "init", user_scores |-> d,
     probabilities |-> <<>>, result |-> Raise("unset")]

InitPredict ==
    /\ RefInit /\ StoreInit /\ dialect = "sqlite"
    /\ model \in ModelPool
    /\ scaler \in ScalerPool
    /\ le_classes \in ClassesPool
    /\ grup_ortalamalari \in AveragesPool
    /\ feature_names = CanonicalFeatures
    /\ log = <<>>
    /\ \/ \E d \in ScoreMaps : call = PredictCall(d)
       \/ call = PredictCall(None)

\* the probabilities of prediction_service.py:116, when the call gets that far
raw_probabilities(user_scores) ==
    LET validated == validate_input(feature_names, user_scores)
    IN  IF ~validated.ok THEN <<>>
        ELSE LET scores_scaled == scaler_transform(validated.value)
             IN  IF ~scores_scaled.ok THEN <<>>
                 ELSE LET probabilities == predict_proba(scores_scaled.value)
                      IN  IF probabilities.ok THEN probabilities.value ELSE <<>>

\* prediction_service.py:106-175
PredictAndAnalyze ==
    /\ call.op = "predict" /\ call.phase = "init"
    /\ call' = [call EXCEPT !.phase = "done",
                            !.probabilities = raw_probabilities(call.user_scores),
                            !.result = predict_and_analyze(call.user_scores)]
    /\ log' = log \o predict_warnings(call.user_scores)
    /\ UNCHANGED <<refVars, dbVars, bundleVars, sessionVars>>

NextPredict == PredictAndAnalyze

SpecPredict == InitPredict /\ [][NextPredict]_vars

Predicted == call.op = "predict" /\ call.phase = "done"

Succeeded == Predicted /\ DOMAIN call.result = {"uyum_skorlari", "kazanan_meslek", "yetkinlik_karsilastirmasi"}

\* the score the feature resolves to: the value under the exact name, else that of
\* the first key, in insertion order, equal to it after trimming and lower-casing
ResolvedScore(feature) ==
    IF feature \in DictKeys(call.user_scores) THEN DictGet(call.user_scores, feature, None)
    ELSE IF FuzzyKeys(feature) = {} THEN None
    ELSE call.user_scores[CHOOSE i \in 1..Len(call.user_scores) :
                             /\ call.user_scores[i][1] \in FuzzyKeys(feature)
                             /\ \A j \in 1..(i - 1) :
                                   call.user_scores[j][1] \notin FuzzyKeys(feature)][2]

NotADict == call.user_scores = None

NonNumericScore ==
    /\ ~NotADict
    /\ \E i \in 1..Len(feature_names) :
          ResolvedScore(feature_names[i]) # None /\ ResolvedScore(feature_names[i])[1] = "str"

ScalerRaises == Len(scaler.mean_) # Len(feature_names)

ClassifierRaises == model.kind # "stump"

\* C11: predict_and_analyze does not raise when its input is not a dict, when a
\* resolved score is not a number, or when the scaler or the classifier raises: it
\* returns a payload that holds an error and no prediction field.
C11_ErrorsAreReturned ==
    Predicted =>
        /\ "ok" \notin DOMAIN call.result
        /\ (NotADict \/ NonNumericScore \/ ScalerRaises \/ ClassifierRaises)
               => DOMAIN call.result = {"error"}

\* a str score reached through a key that matches only after lower-casing, with a
\* scaler and a classifier that work
C11_Witness ==
    /\ Predicted /\ NonNumericScore /\ ~ScalerRaises /\ ~ClassifierRaises
    /\ \E i \in 1..Len(feature_names) :
          /\ feature_names[i] \notin DictKeys(call.user_scores)
          /\ ResolvedScore(feature_names[i]) # None
          /\ ResolvedScore(feature_names[i])[1] = "str"
    /\ DOMAIN call.result = {"error"}

\* C12: in every successful result each compatibility value is an integer of 0..100
\* and the compatibility list has as many entries as the label encoder has classes.
C12_OneScorePerClass ==
    Succeeded =>
        /\ Len(call.result.uyum_skorlari) = Len(le_classes)
        /\ \A i \in 1..Len(call.result.uyum_skorlari) :
              call.result.uyum_skorlari[i].uyum \in 0..100

\* the index of an occupation in label-encoder order
ClassIndex(meslek) == CHOOSE i \in 1..Len(le_classes) : le_classes[i] = meslek

\* C13: the winner is the occupation of maximal raw probability, and of several
\* such the one of lowest class index.
C13_WinnerIsFirstArgmax ==
    Succeeded =>
        LET w == ClassIndex(call.result.kazanan_meslek)
            p == call.probabilities
        IN  /\ \A j \in 1..Len(p) : ~RatLess(p[w], p[j])
            /\ \A j \in 1..(w - 1) : RatLess(p[j], p[w])

\* two classes share the maximal probability
C13_Witness ==
    /\ Succeeded
    /\ \E i, j \in 1..Len(call.probabilities) :
          /\ i < j
          /\ call.probabilities[i] = call.probabilities[j]
          /\ \A k \in 1..Len(call.probabilities) :
                ~RatLess(call.probabilities[i], call.probabilities[k])

\* C14: the compatibility list is ordered by non-increasing percentage, and
\* occupations of equal percentage keep the order of the label encoder.
C14_StableDescending ==
    Succeeded =>
        LET u == call.result.uyum_skorlari
        IN  \A i, j \in 1..Len(u) :
                i < j => \/ u[i].uyum > u[j].uyum
                         \/ /\ u[i].uyum = u[j].uyum
                            /\ ClassIndex(u[i].meslek) < ClassIndex(u[j].meslek)

\* two occupations of equal percentage, in a list the sort has reordered
C14_Witness ==
    /\ Succeeded
    /\ \E i, j \in 1..Len(call.result.uyum_skorlari) :
          /\ i < j
          /\ call.result.uyum_skorlari[i].uyum = call.result.uyum_skorlari[j].uyum
    /\ call.result.uyum_skorlari[1].meslek # le_classes[1]

\* the user's score for the feature, or the neutral default
UserScoreOf(feature) ==
    IF ResolvedScore(feature) = None THEN <<"float", 1, 2>> ELSE ResolvedScore(feature)

\* the winner's group average for the feature, or the neutral default
GroupAverageOf(feature) ==
    LET row == grup_ortalamalari[call.result.kazanan_meslek]
    IN  IF feature \in DictKeys(row) THEN DictGet(row, feature, None) ELSE <<"float", 1, 2>>

\* C15: the comparison has one row per canonical feature, in canonical order, each
\* with the user's score, the winner's group average and their difference to one
\* decimal; a feature absent from the winner's row has group average 0.5.
C15_OneRowPerFeature ==
    Succeeded =>
        LET rows == call.result.yetkinlik_karsilastirmasi
        IN  /\ Len(rows) = Len(feature_names)
            /\ \A i \in 1..Len(feature_names) :
                  LET f == feature_names[i]
                  IN  /\ rows[i].yetkinlik = f
                      /\ rows[i].kullanici_skoru = round1_float(UserScoreOf(f))
                      /\ rows[i].grup_ortalamasi = round1_float(GroupAverageOf(f))
                      /\ rows[i].fark = round1_float(RatSub(UserScoreOf(f), GroupAverageOf(f)))

\* a winner whose row of group averages lacks a feature the user has a score for
C15_Witness ==
    /\ Succeeded
    /\ \E i \in 1..Len(feature_names) :
          /\ feature_names[i] \notin DictKeys(grup_ortalamalari[call.result.kazanan_meslek])
          /\ ResolvedScore(feature_names[i]) # None
          /\ call.result.yetkinlik_karsilastirmasi[i].grup_ortalamasi = <<"float", 1, 2>>

\* the entry of the winner in the compatibility list
WinnerEntry ==
    call.result.uyum_skorlari[CHOOSE i \in 1..Len(call.result.uyum_skorlari) :
                                 call.result.uyum_skorlari[i].meslek = call.result.kazanan_meslek]

\* C28 as stated, for a classifier and an encoder of as many classes: the first
\* entry of the sorted compatibility list is the occupation reported as winner.
C28_WinnerHeadsList ==
    (Succeeded /\ Len(call.probabilities) = Len(le_classes)) =>
        call.result.uyum_skorlari[1].meslek = call.result.kazanan_meslek

\* C28 as the code has it: the winner is in the list with the percentage of the
\* first entry, and the first entry is the winner or an occupation earlier in
\* encoder order that rounds to the same percentage.
C28_HeadTiesWithWinner ==
    Succeeded =>
        /\ \E i \in 1..Len(call.result.uyum_skorlari) :
              call.result.uyum_skorlari[i].meslek = call.result.kazanan_meslek
        /\ call.result.uyum_skorlari[1].uyum = WinnerEntry.uyum
        /\ \/ call.result.uyum_skorlari[1].meslek = call.result.kazanan_meslek
           \/ ClassIndex(call.result.uyum_skorlari[1].meslek) < ClassIndex(call.result.kazanan_meslek)

\* the winner has the greatest raw probability and is not the first entry
C28_Witness ==
    /\ Succeeded /\ Len(call.probabilities) = Len(le_classes)
    /\ call.result.uyum_skorlari[1].meslek # call.result.kazanan_meslek
    /\ \A j \in 1..Len(call.probabilities) :
          j # ClassIndex(call.result.kazanan_meslek)
              => RatLess(call.probabilities[j], call.probabilities[ClassIndex(call.result.kazanan_meslek)])

\* a one-decimal value in tenths
Tenths(x) == (10 * x[2]) \div x[3]

\* the difference of the two reported values of a row, in tenths
ReportedDifference(row) == Tenths(row.kullanici_skoru) - Tenths(row.grup_ortalamasi)

\* C29 as stated: in every row the reported fark equals the reported
\* kullanici_skoru minus the reported grup_ortalamasi.
C29_FarkOfReported ==
    Succeeded =>
        \A i \in 1..Len(call.result.yetkinlik_karsilastirmasi) :
            Tenths(call.result.yetkinlik_karsilastirmasi[i].fark)
                = ReportedDifference(call.result.yetkinlik_karsilastirmasi[i])

\* C29 as the code has it: in every row fark is a tenth nearest to the difference
\* of the unrounded user score and the unrounded group average, and it is within
\* one tenth of the difference of the two reported values.
C29_FarkOfUnrounded ==
    Succeeded =>
        \A i \in 1..Len(feature_names) :
            LET row == call.result.yetkinlik_karsilastirmasi[i]
                u == UserScoreOf(feature_names[i])
                g == GroupAverageOf(feature_names[i])
                n == u[2] * g[3] - g[2] * u[3]
                d == u[3] * g[3]
            IN  /\ Abs(20 * n - 2 * Tenths(row.fark) * d) <= d
                /\ Abs(Tenths(row.fark) - ReportedDifference(row)) <= 1

\* a row whose fark is not the difference of its two reported values
C29_Witness ==
    /\ Succeeded
    /\ \E i \in 1..Len(call.result.yetkinlik_karsilastirmasi) :
          Tenths(call.result.yetkinlik_karsilastirmasi[i].fark)
              # ReportedDifference(call.result.yetkinlik_karsilastirmasi[i])

----------------------------------------------------------------------------
(* The whole pipeline, from the stored rows to the result, run twice on the same *)
(* rows returned in two orders.                                                  *)

\* group averages whose features are Ab and c
PipelineAverages ==
    ("Doctor" :> << <<<<"A", "b">>, Rat(4, 1)>>, <<<<"c">>, Rat(3, 1)>> >>) @@
    ("Engineer" :> << <<<<"A", "b">>, Rat(2, 1)>>, <<<<"c">>, Rat(3, 1)>> >>)

\* prediction_service.py:54 on PipelineAverages
PipelineFeatures == << <<"A", "b">>, <<"c">> >>

\* the joined rows of stored responses: competencies ab, AB and c
PipelineRowPool ==
    { [score |-> sc, name |-> n] : sc \in {1, 5}, n \in { <<"a", "b">>, <<"A", "B">>, <<"c">> } }

PipelineRowSeqs == UNION { [1..n -> PipelineRowPool] : n \in 0..MaxStored }

\* the same rows in another order
Reordered(rows, p) == [i \in 1..Len(rows) |-> rows[p[i]]]

InitPipeline ==
    /\ RefInit /\ StoreInit /\ dialect = "sqlite"
    /\ model = LoadedModel
    /\ scaler = TwoFeatureScaler
    /\ le_classes = LoadedClasses
    /\ grup_ortalamalari = PipelineAverages
    /\ feature_names = PipelineFeatures
    /\ log = <<>>
    /\ \E rows \in PipelineRowSeqs : \E p \in Permutations(1..Len(rows)) :
          call = [op |-> "pipeline", phase |-> "init", path |-> "none", rows |-> rows,
                  reordered |-> Reordered(rows, p),
                  first |-> Raise("unset"), second |-> Raise("unset")]

\* responses.py:62-76 on the rows in either order
PipelinePost ==
    /\ call.op = "pipeline" /\ call.phase = "init"
    /\ call' = [call EXCEPT !.phase = "done", !.path = "post",
                   !.first = predict_and_analyze(post_user_scores(call.rows)),
                   !.second = predict_and_analyze(post_user_scores(call.reordered))]
    /\ UNCHANGED <<refVars, dbVars, bundleVars, sessionVars, log>>

\* responses.py:155-168 on the rows in either order
PipelineGet ==
    /\ call.op = "pipeline" /\ call.phase = "init"
    /\ call.rows # <<>>
    /\ call' = [call EXCEPT !.phase = "done", !.path = "get",
                   !.first = predict_and_analyze(get_user_scores(call.rows)),
                   !.second = predict_and_analyze(get_user_scores(call.reordered))]
    /\ UNCHANGED <<refVars, dbVars, bundleVars, sessionVars, log>>

NextPipeline == PipelinePost \/ PipelineGet

SpecPipeline == InitPipeline /\ [][NextPipeline]_vars

\* C16: two runs of the pipeline over the same stored responses and the same bundle
\* return identical results, whatever order the store returns the rows in and so
\* whatever order the keys of the score map are inserted in.
C16_SameResultInAnyOrder ==
    (call.op = "pipeline" /\ call.phase = "done") => call.first = call.second

----------------------------------------------------------------------------
(* Two calls of predict_and_analyze on the one PredictionService of the process *)
(* (responses.py:22-23), for two users, one statement at a time.                *)

Calls == {1, 2}

\* every call keeps its intermediate results in one place of the service
SharedLocals(c) == 1

\* prediction_service.py:109-127: scores_array, scores_scaled and probabilities are
\* local variables, one set per call
locals_of(c) == c

NoLocals == [scores_array |-> <<>>, scores_scaled |-> <<>>, probabilities |-> <<>>]

InitShared ==
    /\ RefInit /\ BundleInit /\ StoreInit /\ dialect = "sqlite"
    /\ log = <<>>
    /\ \E given \in [Calls -> ScoreMaps] :
          call = [op |-> "shared",
                  phase |-> [c \in Calls |-> "start"],
                  given |-> given,
                  user_scores |-> given,
                  locals |-> [c \in Calls |-> NoLocals],
                  result |-> [c \in Calls |-> Raise("unset")]]

\* prediction_service.py:108-112
ValidateStep(c) ==
    /\ call.op = "shared" /\ call.phase[c] = "start"
    /\ LET validated == validate_input(feature_names, call.user_scores[c])
       IN  /\ call' = IF validated.ok
                      THEN [call EXCEPT !.phase[c] = "validated",
                                        !.locals[locals_of(c)].scores_array = validated.value]
                      ELSE [call EXCEPT !.phase[c] = "done",
                                        !.result[c] = ErrorResult(validated.error)]
           /\ log' = log \o validate_warnings(validated)
    /\ UNCHANGED <<refVars, dbVars, bundleVars, sessionVars>>

\* prediction_service.py:115
ScaleStep(c) ==
    /\ call.op = "shared" /\ call.phase[c] = "validated"
    /\ LET scores_scaled == scaler_transform(call.locals[locals_of(c)].scores_array)
       IN  call' = IF scores_scaled.ok
                   THEN [call EXCEPT !.phase[c] = "scaled",
                                     !.locals[locals_of(c)].scores_scaled = scores_scaled.value]
                   ELSE [call EXCEPT !.phase[c] = "done",
                                     !.result[c] = ErrorResult("Model prediction error")]
    /\ UNCHANGED <<refVars, dbVars, bundleVars, sessionVars, log>>

\* prediction_service.py:116-119
ClassifyStep(c) ==
    /\ call.op = "shared" /\ call.phase[c] = "scaled"
    /\ LET probabilities == predict_proba(call.locals[locals_of(c)].scores_scaled)
       IN  call' = IF probabilities.ok
                   THEN [call EXCEPT !.phase[c] = "classified",
                                     !.locals[locals_of(c)].probabilities = probabilities.value]
                   ELSE [call EXCEPT !.phase[c] = "done",
                                     !.result[c] = ErrorResult("Model prediction error")]
    /\ UNCHANGED <<refVars, dbVars, bundleVars, sessionVars, log>>

\* prediction_service.py:121-175
AnalyzeStep(c) ==
    /\ call.op = "shared" /\ call.phase[c] = "classified"
    /\ call' = [call EXCEPT !.phase[c] = "done",
                            !.result[c] = analyze(call.user_scores[c],
                                                  call.locals[locals_of(c)].probabilities)]
    /\ UNCHANGED <<refVars, dbVars, bundleVars, sessionVars, log>>

NextShared ==
    \E c \in Calls : ValidateStep(c) \/ ScaleStep(c) \/ ClassifyStep(c) \/ AnalyzeStep(c)

SpecShared == InitShared /\ [][NextShared]_vars

\* C17: no call writes to the bundle or to its input score map, and under every
\* interleaving of two calls each returns the result it returns when run alone.
C17_CallsAreIndependent ==
    call.op = "shared" =>
        /\ bundleVars = <<LoadedModel, LoadedScaler, LoadedClasses, LoadedAverages, CanonicalFeatures>>
        /\ call.user_scores = call.given
        /\ \A c \in Calls :
              call.phase[c] = "done" => call.result[c] = predict_and_analyze(call.given[c])

\* both calls have returned a prediction, and not the same one
C17_Witness ==
    /\ call.op = "shared"
    /\ \A c \in Calls : call.phase[c] = "done"
    /\ call.result[1] # call.result[2]
    /\ ~HasError(call.result[1]) /\ ~HasError(call.result[2])

----------------------------------------------------------------------------
(* PredictionService.__init__ on an artifacts directory, at the import of       *)
(* responses.py by main.py:10, and the requests answered afterwards.            *)

Kinds == <<"model", "scaler", "encoder", "averages">>

\* prediction_service.py:30 and 44: the kinds with a pattern of optimized files
PatternKinds == {"model", "encoder"}

SwappedFeatures == << <<"b">>, <<"a">>, <<"c">> >>

ArtifactFile(kind, optimized, mtime, fitted_on, content) ==
    [kind |-> kind, optimized |-> optimized, mtime |-> mtime, fitted_on |-> fitted_on,
     content |-> content]

\* the files an artifacts directory may hold: lightgbm_optimized_*.pkl of two
\* training runs, best_model.joblib written last of all, label_encoder_*.pkl,
\* label_encoder.joblib, scaler.joblib fitted on either feature order, and
\* grup_ortalamalari.joblib
FilePool ==
    << ArtifactFile("model", TRUE, 2, CanonicalFeatures, ThreeClassModel),
       ArtifactFile("model", TRUE, 1, CanonicalFeatures, LoadedModel),
       ArtifactFile("model", TRUE, 2, SwappedFeatures, LoadedModel),
       ArtifactFile("model", FALSE, 3, CanonicalFeatures, LoadedModel),
       ArtifactFile("encoder", TRUE, 1, CanonicalFeatures, ThreeClasses),
       ArtifactFile("encoder", FALSE, 2, CanonicalFeatures, LoadedClasses),
       ArtifactFile("scaler", FALSE, 1, CanonicalFeatures, LoadedScaler),
       ArtifactFile("scaler", FALSE, 2, SwappedFeatures, LoadedScaler),
       ArtifactFile("averages", FALSE, 1, CanonicalFeatures, ThreeClassAverages) >>

\* the files of the pool at the positions of S, in pool order or in reverse
RECURSIVE Listing(_, _)
Listing(S, reverse) ==
    IF S = {} THEN <<>>
    ELSE LET i == CHOOSE j \in S : \A k \in S : IF reverse THEN j >= k ELSE j <= k
         IN  <<FilePool[i]>> \o Listing(S \ {i}, reverse)

\* directories with at most one file of each fixed name
Directories ==
    { Listing(S, reverse) :
        S \in { T \in SUBSET (1..Len(FilePool)) :
                  \A i, j \in T : (i # j /\ FilePool[i].kind = FilePool[j].kind)
                                      => (FilePool[i].optimized \/ FilePool[j].optimized) },
        reverse \in BOOLEAN }

\* the oldest of the files
RECURSIVE MinByMtime(_)
MinByMtime(files) ==
    IF Len(files) = 1 THEN files[1]
    ELSE LET best == MinByMtime(SubSeq(files, 1, Len(files) - 1))
         IN  IF files[Len(files)].mtime < best.mtime THEN files[Len(files)] ELSE best

\* max(files, key=lambda x: x.stat().st_mtime): the first of the newest files
RECURSIVE max_by_mtime(_)
max_by_mtime(files) ==
    IF Len(files) = 1 THEN files[1]
    ELSE LET best == max_by_mtime(SubSeq(files, 1, Len(files) - 1))
         IN  IF files[Len(files)].mtime > best.mtime THEN files[Len(files)] ELSE best

\* artifacts_path.glob(pattern of the kind), in directory order
glob(files, kind) ==
    IF kind \in PatternKinds
    THEN SelectSeq(files, LAMBDA f : f.kind = kind /\ f.optimized)
    ELSE <<>>

\* an artifact that is absent is replaced by a packaged default, and the loader goes on
LoadOrDefault(files, kind) ==
    LET optimized_files == glob(files, kind)
        legacy == SelectSeq(files, LAMBDA f : f.kind = kind /\ ~f.optimized)
    IN  IF optimized_files # <<>> THEN Return(max_by_mtime(optimized_files))
        ELSE IF legacy # <<>> THEN Return(legacy[1])
        ELSE Return(FilePool[CHOOSE i \in 1..Len(FilePool) :
                                 FilePool[i].kind = kind /\ ~FilePool[i].optimized])

\* prediction_service.py:30-53: the file loaded for a kind, or FileNotFoundError
load_artifact(files, kind) ==
    LET optimized_files == glob(files, kind)
        legacy == SelectSeq(files, LAMBDA f : f.kind = kind /\ ~f.optimized)
    IN  IF optimized_files # <<>> THEN Return(max_by_mtime(optimized_files))
        ELSE IF legacy # <<>> THEN Return(legacy[1])
        ELSE Raise("FileNotFoundError")

\* prediction_service.py:54  list(list(self.grup_ortalamalari.values())[0].keys()):
\* the keys of one row of the table, whose rows have the same keys in every file
\* of the pool
feature_names_of(averages) ==
    LET first == averages[CHOOSE k \in DOMAIN averages : TRUE]
    IN  [i \in 1..Len(first) |-> first[i][1]]

\* prediction_service.py:28-60: the files loaded, or the exception raised
construct(files) ==
    LET loaded == [i \in 1..Len(Kinds) |-> load_artifact(files, Kinds[i])]
    IN  IF \E i \in 1..Len(Kinds) : ~loaded[i].ok THEN Raise("FileNotFoundError")
        ELSE Return([i \in 1..Len(Kinds) |-> loaded[i].value])

InitLoad ==
    /\ RefInit /\ StoreInit /\ dialect = "sqlite"
    /\ model = None /\ scaler = None /\ le_classes = None
    /\ grup_ortalamalari = None /\ feature_names = None
    /\ log = <<>>
    /\ \E files \in Directories :
          call = [op |-> "load", phase |-> "start", files |-> files, selected |-> <<>>,
                  answered |-> FALSE, result |-> Raise("unset")]

\* responses.py:22-23 at import time: prediction_service = PredictionService()
Construct ==
    /\ call.op = "load" /\ call.phase = "start"
    /\ LET built == construct(call.files)
       IN  IF built.ok
           THEN /\ model' = built.value[1].content
                /\ scaler' = built.value[2].content
                /\ le_classes' = built.value[3].content
                /\ grup_ortalamalari' = built.value[4].content
                /\ feature_names' = feature_names_of(built.value[4].content)
                /\ call' = [call EXCEPT !.phase = "serving", !.selected = built.value]
           ELSE /\ call' = [call EXCEPT !.phase = "failed"]
                /\ UNCHANGED bundleVars
    /\ UNCHANGED <<refVars, dbVars, sessionVars, log>>

\* responses.py:76 and 168: a request is answered by the service that was built
Answer ==
    /\ call.op = "load" /\ call.phase = "serving" /\ ~call.answered
    /\ \E d \in ScoreMaps :
          /\ call' = [call EXCEPT !.answered = TRUE, !.result = predict_and_analyze(d)]
          /\ log' = log \o predict_warnings(d)
    /\ UNCHANGED <<refVars, dbVars, bundleVars, sessionVars>>

NextLoad == Construct \/ Answer

SpecLoad == InitLoad /\ [][NextLoad]_vars

FilesOf(kind, optimized) ==
    {call.files[i] : i \in {j \in 1..Len(call.files) :
                              call.files[j].kind = kind /\ call.files[j].optimized = optimized}}

\* C18: for each artifact kind the loader selects an optimized file of the latest
\* modification time when an optimized file exists, and the legacy file of the
\* kind only when none exists.
C18_LatestOptimizedElseLegacy ==
    (call.op = "load" /\ call.phase = "serving") =>
        \A i \in 1..Len(Kinds) :
            LET chosen == call.selected[i]
            IN  /\ chosen.kind = Kinds[i]
                /\ bundleVars[i] = chosen.content
                /\ IF FilesOf(Kinds[i], TRUE) # {}
                   THEN /\ chosen \in FilesOf(Kinds[i], TRUE)
                        /\ \A f \in FilesOf(Kinds[i], TRUE) : f.mtime <= chosen.mtime
                   ELSE chosen \in FilesOf(Kinds[i], FALSE)

\* optimized models of two ages listed oldest last, beside a legacy model newer than
\* both, and an encoder with only its legacy file
C18_Witness ==
    /\ call.op = "load" /\ call.phase = "serving"
    /\ \E f, g \in FilesOf("model", TRUE) : f.mtime < g.mtime
    /\ \E f \in FilesOf("model", FALSE) : f.mtime > call.selected[1].mtime
    /\ \E i, j \in 1..Len(call.files) :
          /\ i < j
          /\ call.files[i] = call.selected[1]
          /\ call.files[j].kind = "model" /\ call.files[j].optimized
    /\ FilesOf("encoder", TRUE) = {}

\* a required kind with neither an optimized nor a legacy file
MissingKind == \E i \in 1..Len(Kinds) : FilesOf(Kinds[i], TRUE) \cup FilesOf(Kinds[i], FALSE) = {}

\* C19: when a required kind has neither an optimized nor a legacy file, the
\* construction of the service fails: the service never serves, and no request is
\* answered.
C19_MissingArtifactAbortsStartup ==
    (call.op = "load" /\ MissingKind) =>
        /\ call.phase \in {"start", "failed"}
        /\ ~call.answered
        /\ bundleVars = <<None, None, None, None, None>>

\* the construction has failed for a directory that lacks only its scaler
C19_Witness ==
    /\ call.op = "load" /\ call.phase = "failed"
    /\ FilesOf("scaler", FALSE) = {}
    /\ \A i \in {1, 3, 4} : FilesOf(Kinds[i], TRUE) \cup FilesOf(Kinds[i], FALSE) # {}

\* C20: a service whose classifier, scaler, label encoder and group averages do not
\* agree on the canonical feature order is never built, so none serves a prediction.
C20_MismatchNeverServes ==
    (call.op = "load" /\ call.phase = "serving") =>
        \A i \in 1..Len(Kinds) : call.selected[i].fitted_on = feature_names

----------------------------------------------------------------------------
(* save_user_responses on every stored state of two users and every batch: valid *)
(* letters, a letter out of range, an empty one, one of two characters, and a    *)
(* scenario that has no options.                                                 *)

SaveResponsePool ==
    ResponsePool \cup
    { [scenario_id |-> 2, option_letter |-> <<>>],
      [scenario_id |-> 1, option_letter |-> <<65, 66>>],
      [scenario_id |-> 3, option_letter |-> <<65>>] }

SavePayloads == UNION { [1..n -> SaveResponsePool] : n \in 0..MaxPayload }

\* the tables earlier saves can have left: at most one row per user and scenario
StoredTables ==
    { {Row(1, o) : o \in first} \cup {Row(1, o) : o \in second} \cup {Row(2, o) : o \in other} :
        first \in {{}, {1}, {3}}, second \in {{}, {2}, {4}}, other \in {{}, {3}} }

InitSave ==
    /\ RefInit /\ BundleInit
    /\ scenarioresponse \in StoredTables
    /\ user_assessment_results = [u \in Users |-> NoRow]
    /\ pc = [s \in Sessions |-> "idle"]
    /\ req = [s \in Sessions |-> NoRequest]
    /\ txn = [s \in Sessions |-> NoTxn]
    /\ resp = [s \in Sessions |-> NoResponse]
    /\ latest = [u \in Users |-> [sc \in DOMAIN ScenarioRows |-> 0]]
    /\ dialect = "sqlite"
    /\ log = <<>>
    /\ \E u \in Users, responses \in SavePayloads :
          call = [op |-> "save", phase |-> "init", user |-> u, responses |-> responses,
                  before |-> scenarioresponse, deleted |-> {}, result |-> Raise("unset")]

\* response_crud.py:44-96
SaveUserResponses ==
    /\ call.op = "save" /\ call.phase = "init"
    /\ LET saved == save_user_responses(scenarioresponse, call.responses, call.user)
           unique == unique_responses(call.responses)
       IN  /\ scenarioresponse' = saved.table
           /\ call' = [call EXCEPT
                          !.phase = "done",
                          !.deleted = UNION {delete_targets(scenarioresponse, call.user, unique[i][1]) :
                                               i \in 1..Len(unique)},
                          !.result = IF saved.ok THEN Return(saved.value) ELSE Raise(saved.error)]
    /\ UNCHANGED <<refVars, bundleVars, user_assessment_results, dialect, sessionVars, log>>

NextSave == SaveUserResponses

SpecSave == InitSave /\ [][NextSave]_vars

Saved == call.op = "save" /\ call.phase = "done"

\* the place of a letter after A, in either case
LetterPlace(c) == IF c >= 97 THEN c - 97 ELSE c - 65

\* the response names a scenario without options, a letter that is not one
\* character, or a letter out of range for its scenario
InvalidResponse(r) ==
    \/ OptionIdsOf(scenariooption, r.scenario_id) = {}
    \/ Len(r.option_letter) # 1
    \/ LetterPlace(r.option_letter[1])
           \notin 0..(Cardinality(OptionIdsOf(scenariooption, r.scenario_id)) - 1)

\* the responses of the batch that no later response of the same scenario follows
LastOfScenario(responses) ==
    {i \in 1..Len(responses) :
        \A j \in (i + 1)..Len(responses) : responses[j].scenario_id # responses[i].scenario_id}

RaisedAndUnchanged == ~call.result.ok /\ scenarioresponse = call.before

\* C22 as stated: if any response of the batch is invalid, save_user_responses
\* raises and the stored responses are what they were before the call.
C22_AnyInvalidRaises ==
    (Saved /\ \E i \in 1..Len(call.responses) : InvalidResponse(call.responses[i]))
        => RaisedAndUnchanged

\* C22 as the code has it: if a response that is the last of its scenario in the
\* batch is invalid, save_user_responses raises and the stored responses are what
\* they were before the call, those deleted in the call included; an invalid
\* response followed by another response of its scenario is dropped unexamined.
C22_LastInvalidRaises ==
    Saved =>
        ((\E i \in LastOfScenario(call.responses) : InvalidResponse(call.responses[i]))
            <=> ~call.result.ok)
        /\ (~call.result.ok => scenarioresponse = call.before)

\* a batch with a valid response for a scenario the user had answered, whose old
\* row the call deleted, and an invalid last response for another scenario
C22_Witness ==
    /\ Saved /\ RaisedAndUnchanged
    /\ call.deleted # {}
    /\ \E i, j \in LastOfScenario(call.responses) :
          /\ ~InvalidResponse(call.responses[i])
          /\ InvalidResponse(call.responses[j])
          /\ \E r \in call.deleted : ScenarioOfOption(r.scenariooptionid) = call.responses[i].scenario_id

\* the row is outside the call: of another user, or of a scenario not in the payload
OutsideCall(r) ==
    \/ r.userid # call.user
    \/ ScenarioOfOption(r.scenariooptionid) \notin ScenarioIds(call.responses)

\* C23: a save for user U with payload scenarios P leaves unchanged every stored
\* response of U for a scenario outside P and every stored response of every other
\* user.
C23_FrameOfSave ==
    Saved =>
        \A r \in call.before \cup scenarioresponse :
            OutsideCall(r) => (r \in call.before <=> r \in scenarioresponse)

\* a successful save that replaced a row of its user, who holds a row of another
\* scenario, beside a row of another user for the scenario saved
C23_Witness ==
    /\ Saved /\ call.result.ok
    /\ call.deleted # {} /\ scenarioresponse # call.before
    /\ \E r \in scenarioresponse : r.userid = call.user /\ OutsideCall(r)
    /\ \E r \in scenarioresponse :
          /\ r.userid # call.user
          /\ ScenarioOfOption(r.scenariooptionid) \in ScenarioIds(call.responses)

\* C24: of several responses of a payload for one scenario_id only the last is
\* stored, and the count returned is the number of distinct scenario_ids of the
\* payload.
C24_LastOfDuplicatesStored ==
    (Saved /\ call.result.ok) =>
        /\ call.result.value = Cardinality(ScenarioIds(call.responses))
        /\ \A sc \in ScenarioIds(call.responses) :
              {r.scenariooptionid : r \in {x \in scenarioresponse :
                  x.userid = call.user /\ ScenarioOfOption(x.scenariooptionid) = sc}}
                  = {NamedOption(LastResponseFor(call.responses, sc))}

\* a payload with two responses for one scenario that name different options
C24_Witness ==
    /\ Saved /\ call.result.ok
    /\ \E i, j \in 1..Len(call.responses) :
          /\ i < j
          /\ call.responses[i].scenario_id = call.responses[j].scenario_id
          /\ ~InvalidResponse(call.responses[i])
          /\ NamedOption(call.responses[i]) # NamedOption(call.responses[j])
    /\ call.result.value < Len(call.responses)

----------------------------------------------------------------------------
(* POST /responses one statement group at a time: the save and its commit, the   *)
(* query and the prediction, the write of the assessment result. The classifier  *)
(* of the bundle works or raises, and a user may have a result of earlier date.  *)

PostPayloads ==
    { <<>>,
      << [scenario_id |-> 1, option_letter |-> <<65>>] >>,
      << [scenario_id |-> 1, option_letter |-> <<98>>] >>,
      << [scenario_id |-> 2, option_letter |-> <<66>>] >>,
      << [scenario_id |-> 1, option_letter |-> <<65>>], [scenario_id |-> 2, option_letter |-> <<66>>] >>,
      << [scenario_id |-> 2, option_letter |-> <<67>>] >> }

\* a row of user_assessment_results written by an earlier deployment
EarlierResult ==
    [recommended_occupation |-> "Doctor",
     occupation_compatibility_scores |->
         << [meslek |-> "Doctor", uyum |-> 80], [meslek |-> "Engineer", uyum |-> 20] >>]

InitPost ==
    /\ RefInit
    /\ model \in {LoadedModel, RaisingModel}
    /\ scaler = LoadedScaler
    /\ le_classes = LoadedClasses
    /\ grup_ortalamalari = LoadedAverages
    /\ feature_names = CanonicalFeatures
    /\ scenarioresponse = {}
    /\ \E earlier \in SUBSET Users :
          user_assessment_results = [u \in Users |-> IF u \in earlier THEN EarlierResult ELSE NoRow]
    /\ pc = [s \in Sessions |-> "idle"]
    /\ req = [s \in Sessions |-> NoRequest]
    /\ txn = [s \in Sessions |-> NoTxn]
    /\ resp = [s \in Sessions |-> NoResponse]
    /\ latest = [u \in Users |-> [sc \in DOMAIN ScenarioRows |-> 0]]
    /\ dialect = "sqlite"
    /\ call = NoCall
    /\ log = <<>>

\* responses.py:45, and 96-100 when the save raises
PostSave(u, responses) ==
    /\ pc[1] = "idle"
    /\ LET saved == save_user_responses(scenarioresponse, responses, u)
       IN  /\ req' = [req EXCEPT ![1] = [endpoint |-> "post", user |-> u, responses |-> responses,
                                         scenario_ids |-> ScenarioIds(responses),
                                         before |-> StoredOptions(scenarioresponse, u)]]
           /\ call' = [op |-> "post", assessment_before |-> user_assessment_results[u],
                       rows |-> <<>>, writes |-> 0, save_failed |-> FALSE]
           /\ IF saved.ok
              THEN /\ scenarioresponse' = saved.table
                   /\ pc' = [pc EXCEPT ![1] = "saved"]
                   /\ UNCHANGED resp
              ELSE /\ resp' = [resp EXCEPT ![1] = [status |-> 500, body |-> ErrorResult(saved.error),
                                                    fed |-> None]]
                   /\ pc' = [pc EXCEPT ![1] = "done"]
                   /\ UNCHANGED scenarioresponse
    /\ UNCHANGED <<refVars, bundleVars, user_assessment_results, dialect, txn, latest, log>>

\* responses.py:49-83
PostPredict ==
    /\ pc[1] = "saved"
    /\ \E rows \in post_rows(scenarioresponse, req[1].user, req[1].responses) :
          LET out == post_predict(rows, user_assessment_results[req[1].user], FALSE)
          IN  /\ call' = [call EXCEPT !.rows = rows]
              /\ log' = predict_warnings(out.fed)
              /\ IF out.status = 400
                 THEN /\ resp' = [resp EXCEPT ![1] = [status |-> 400, body |-> out.body, fed |-> out.fed]]
                      /\ user_assessment_results' =
                             [user_assessment_results EXCEPT ![req[1].user] = out.assessment]
                      /\ pc' = [pc EXCEPT ![1] = "done"]
                 ELSE /\ pc' = [pc EXCEPT ![1] = "predicted"]
                      /\ UNCHANGED <<resp, user_assessment_results>>
    /\ UNCHANGED <<refVars, bundleVars, scenarioresponse, dialect, req, txn, latest>>

\* responses.py:85-92: the write of the result, which succeeds or raises
PostPersist ==
    /\ pc[1] = "predicted"
    /\ \E save_fails \in BOOLEAN :
          LET out == post_predict(call.rows, user_assessment_results[req[1].user], save_fails)
          IN  /\ resp' = [resp EXCEPT ![1] = [status |-> out.status, body |-> out.body, fed |-> out.fed]]
              /\ user_assessment_results' =
                     [user_assessment_results EXCEPT ![req[1].user] = out.assessment]
              /\ call' = [call EXCEPT !.writes = call.writes + 1, !.save_failed = save_fails]
    /\ pc' = [pc EXCEPT ![1] = "done"]
    /\ UNCHANGED <<refVars, bundleVars, scenarioresponse, dialect, req, txn, latest, log>>

NextPost ==
    \/ \E u \in Users, responses \in PostPayloads : PostSave(u, responses)
    \/ PostPredict
    \/ PostPersist
    \/ Respond(1)

SpecPost == InitPost /\ [][NextPost]_vars

\* the stored responses of the user of the request are those of before the request
\* with the batch laid over them
BatchStored ==
    \A sc \in DOMAIN ScenarioRows :
        StoredFor(req[1].user, sc) =
            IF sc \in req[1].scenario_ids
            THEN {NamedOption(LastResponseFor(req[1].responses, sc))}
            ELSE {o \in req[1].before : ScenarioOfOption(o) = sc}

PostAnswered(code) == pc[1] = "done" /\ req[1].endpoint = "post" /\ resp[1].status = code

\* C21: when the write of the assessment result fails during POST /responses, the
\* request still returns the result computed, the responses saved in the request
\* stay committed, and the write is tried once only; the stored result is the one
\* of before.
C21_FailedResultWriteIsSwallowed ==
    (pc[1] = "done" /\ req[1].endpoint = "post" /\ call.save_failed) =>
        /\ resp[1].status = 200
        /\ resp[1].body = predict_and_analyze(resp[1].fed)
        /\ ~HasError(resp[1].body)
        /\ BatchStored
        /\ call.writes = 1
        /\ user_assessment_results[req[1].user] = call.assessment_before

\* the write has failed in a request whose batch replaced a stored response
C21_Witness ==
    /\ PostAnswered(200) /\ call.save_failed
    /\ \E o \in req[1].before : o \notin StoredOptions(scenarioresponse, req[1].user)
    /\ call.assessment_before # assessment_row(resp[1].body)

\* C30: POST /responses commits the batch before it predicts: once the save has
\* returned the stored responses hold the batch, and when the prediction returns an
\* error the request fails with 400, the stored responses still hold the batch and
\* the stored assessment result is the one of before.
C30_CommitBeforePredict ==
    /\ (pc[1] \in {"saved", "predicted"} /\ req[1].endpoint = "post") => BatchStored
    /\ PostAnswered(400) =>
          /\ HasError(resp[1].body)
          /\ BatchStored
          /\ call.writes = 0
          /\ user_assessment_results[req[1].user] = call.assessment_before

\* a request has failed with 400 after its batch replaced a stored response, for a
\* user who has an assessment result
C30_Witness ==
    /\ PostAnswered(400)
    /\ \E o \in req[1].before : o \notin StoredOptions(scenarioresponse, req[1].user)
    /\ req[1].scenario_ids # {}
    /\ user_assessment_results[req[1].user] # NoRow

----------------------------------------------------------------------------
(* POST /responses and GET /responses/result on the same stored responses: the   *)
(* aggregation and prediction of each handler on the rows both queries return.   *)

\* a classifier that splits the scaled first feature at -0.84, between the scaled
\* values of 1.3 and of 4/3
EntryModel ==
    [kind |-> "stump", feature |-> 1, threshold |-> Rat(-21, 25),
     low |-> <<Rat(3, 10), Rat(7, 10)>>, high |-> <<Rat(5, 8), Rat(3, 8)>>]

\* the joined rows of stored responses: competency a, written plain or with a quote
EntryRowPool == [score : {1, 2, 5}, name : { <<"a">>, <<"a", "'">> }]

EntryRowSeqs == UNION { [1..n -> EntryRowPool] : n \in 1..MaxStored }

InitEntry ==
    /\ RefInit /\ StoreInit /\ dialect = "sqlite"
    /\ model = EntryModel
    /\ scaler = LoadedScaler
    /\ le_classes = LoadedClasses
    /\ grup_ortalamalari = LoadedAverages
    /\ feature_names = CanonicalFeatures
    /\ log = <<>>
    /\ \E rows \in EntryRowSeqs :
          call = [op |-> "entry", rows |-> rows, posted |-> FALSE, got |-> FALSE,
                  post |-> NoResponse, get |-> NoResponse]

\* responses.py:62-92 on the stored rows
EntryPost ==
    /\ call.op = "entry" /\ ~call.posted
    /\ LET out == post_predict(call.rows, NoRow, FALSE)
       IN  call' = [call EXCEPT !.posted = TRUE,
                                !.post = [status |-> out.status, body |-> out.body, fed |-> out.fed]]
    /\ UNCHANGED <<refVars, dbVars, bundleVars, sessionVars, log>>

\* responses.py:155-171 on the stored rows
EntryGet ==
    /\ call.op = "entry" /\ call.posted /\ ~call.got
    /\ call' = [call EXCEPT !.got = TRUE, !.get = get_predict(call.rows)]
    /\ UNCHANGED <<refVars, dbVars, bundleVars, sessionVars, log>>

NextEntry == EntryPost \/ EntryGet

SpecEntry == InitEntry /\ [][NextEntry]_vars

\* C27: for any stored responses, GET /responses/result returns the same result as
\* the POST /responses that produced them, both handlers deriving the same score
\* map from the same stored responses.
C27_GetEqualsPost ==
    (call.op = "entry" /\ call.posted /\ call.got) =>
        /\ call.get.status = call.post.status
        /\ call.get.body = call.post.body

----------------------------------------------------------------------------
(* GET /responses/progress beside GET /scenarios?stage=k, for a user who has     *)
(* answered any of the scenarios of the first two stages.                        *)

\* responses.py:116-117 and scenarios.py:50-52: each stage has 4 scenarios
StageSize == 4

\* responses.py:118-120 and scenarios.py:43: the last stage
LastStage == 4

\* scenarios 1 to 8 of one competency, each with one option of its own id
ProgressScenarios == [sc \in 1..(2 * StageSize) |-> 1]

ProgressOptions ==
    {[scenariooptionid |-> sc, scenarioid |-> sc, score |-> 1] : sc \in DOMAIN ProgressScenarios}

\* response_crud.py:99-103
get_user_response_count(rows, user_id) == Cardinality({r \in rows : r.userid = user_id})

\* responses.py:115-126
get_user_progress(total) ==
    LET completed == IF total \div StageSize > LastStage THEN LastStage ELSE total \div StageSize
    IN  [total_responses |-> total,
         current_stage |-> IF completed < LastStage THEN completed + 1 ELSE LastStage,
         completed_stages |-> [i \in 1..completed |-> i]]

\* scenarios.py:39-55: scenarios[start_index:end_index] of the scenarios by id
get_scenarios(stage) ==
    LET scenarios == SortAscending(DOMAIN scenario)
        start_index == (stage - 1) * StageSize
        end_index == start_index + StageSize
    IN  SubSeq(scenarios, Min(start_index, Len(scenarios)) + 1, Min(end_index, Len(scenarios)))

NotServed == <<0>>

InitProgress ==
    /\ scenariooption = ProgressOptions
    /\ scenario = ProgressScenarios
    /\ competency = CompetencyRows
    /\ BundleInit
    /\ \E answered \in SUBSET (DOMAIN ProgressScenarios) :
          scenarioresponse = {Row(1, sc) : sc \in answered}
    /\ user_assessment_results = [u \in Users |-> NoRow]
    /\ pc = [s \in Sessions |-> "idle"]
    /\ req = [s \in Sessions |-> NoRequest]
    /\ txn = [s \in Sessions |-> NoTxn]
    /\ resp = [s \in Sessions |-> NoResponse]
    /\ latest = [u \in Users |-> [sc \in DOMAIN ScenarioRows |-> 0]]
    /\ dialect = "sqlite"
    /\ log = <<>>
    /\ call = [op |-> "progress", asked |-> FALSE, progress |-> get_user_progress(0),
               served |-> [k \in 1..LastStage |-> NotServed]]

\* GET /responses/progress of user 1
GetProgress ==
    /\ call.op = "progress" /\ ~call.asked
    /\ call' = [call EXCEPT !.asked = TRUE,
                   !.progress = get_user_progress(get_user_response_count(scenarioresponse, 1))]
    /\ UNCHANGED <<refVars, dbVars, bundleVars, sessionVars, log>>

\* GET /scenarios?stage=k
GetScenarios(stage) ==
    /\ call.op = "progress" /\ call.served[stage] = NotServed
    /\ call' = [call EXCEPT !.served[stage] = get_scenarios(stage)]
    /\ UNCHANGED <<refVars, dbVars, bundleVars, sessionVars, log>>

NextProgress == GetProgress \/ \E stage \in 1..LastStage : GetScenarios(stage)

SpecProgress == InitProgress /\ [][NextProgress]_vars

\* C26: a stage is listed in completed_stages only if the user has a stored
\* response for every scenario GET /scenarios serves for that stage, and
\* current_stage is in 1..4.
C26_CompletedStagesAnswered ==
    (call.op = "progress" /\ call.asked) =>
        /\ call.progress.current_stage \in 1..LastStage
        /\ \A i \in 1..Len(call.progress.completed_stages) :
              LET k == call.progress.completed_stages[i]
              IN  call.served[k] # NotServed =>
                      \A j \in 1..Len(call.served[k]) :
                          \E r \in scenarioresponse :
                              /\ r.userid = 1
                              /\ ScenarioOfOption(r.scenariooptionid) = call.served[k][j]

----------------------------------------------------------------------------
(* save_user_assessment_result called by two sessions, one statement group at a  *)
(* time. Here user_assessment_results is the table as a set of rows, so that two *)
(* rows of one user can be told from one.                                        *)

\* the two results the calls are made with
ResultPool == {predict_and_analyze(<< <<<<"a">>, Rat(1, 1)>> >>),
               predict_and_analyze(<< <<<<"a">>, Rat(5, 1)>> >>)}

\* assessment_result_crud.py:36-57 and 77: the row of a user for a result
result_row(id, user_id, prediction_result) ==
    [id |-> id, userid |-> user_id,
     recommended_occupation |-> assessment_row(prediction_result).recommended_occupation,
     occupation_compatibility_scores |->
         assessment_row(prediction_result).occupation_compatibility_scores]

\* an INSERT into a table without the constraint
InsertUnconstrained(table, row) == Return(table \cup {row})

\* models.py:219: an INSERT under UniqueConstraint('userid')
insert_result(table, row) ==
    IF \E r \in table : r.userid = row.userid THEN Raise("IntegrityError")
    ELSE Return(table \cup {row})

\* assessment_result_crud.py:69-72: the UPDATE of the row that was read
update_result(table, id, prediction_result) ==
    {IF r.id = id THEN result_row(r.id, r.userid, prediction_result) ELSE r : r \in table}

InitResult ==
    /\ RefInit /\ BundleInit
    /\ scenarioresponse = {}
    /\ user_assessment_results \in
           {{}, {[id |-> 0, userid |-> 1,
                  recommended_occupation |-> EarlierResult.recommended_occupation,
                  occupation_compatibility_scores |-> EarlierResult.occupation_compatibility_scores]}}
    /\ pc = [s \in Sessions |-> "idle"]
    /\ req = [s \in Sessions |-> NoRequest]
    /\ txn = [s \in Sessions |-> NoTxn]
    /\ resp = [s \in Sessions |-> NoResponse]
    /\ latest = [u \in Users |-> [sc \in DOMAIN ScenarioRows |-> 0]]
    /\ dialect = "postgresql"
    /\ log = <<>>
    /\ \E user \in [Sessions -> Users], prediction \in [Sessions -> ResultPool] :
          call = [op |-> "result", user |-> user, prediction |-> prediction,
                  phase |-> [s \in Sessions |-> "start"],
                  existing |-> [s \in Sessions |-> {}],
                  overtaken |-> [s \in Sessions |-> FALSE],
                  returned |-> [s \in Sessions |-> {}]]

\* assessment_result_crud.py:31-33
ReadExisting(s) ==
    /\ call.op = "result" /\ call.phase[s] = "start"
    /\ call' = [call EXCEPT
                   !.phase[s] = "read",
                   !.existing[s] = {r.id : r \in {x \in user_assessment_results :
                                                     x.userid = call.user[s]}}]
    /\ UNCHANGED <<refVars, dbVars, bundleVars, sessionVars, log>>

\* the calls of the same user that have read and not returned when s commits
Overtaken(s) ==
    {t \in Sessions \ {s} : call.user[t] = call.user[s] /\ call.phase[t] \in {"read", "committed"}}

\* assessment_result_crud.py:67-72 and 75-79, or 83-86 when the commit raises
WriteCommit(s) ==
    /\ call.op = "result" /\ call.phase[s] = "read"
    /\ IF call.existing[s] # {}
       THEN /\ user_assessment_results' =
                   update_result(user_assessment_results,
                                 CHOOSE id \in call.existing[s] : TRUE, call.prediction[s])
            /\ call' = [call EXCEPT
                           !.phase[s] = "committed",
                           !.overtaken = [t \in Sessions |-> call.overtaken[t] \/ t \in Overtaken(s)]]
       ELSE LET inserted == insert_result(user_assessment_results,
                                          result_row(s, call.user[s], call.prediction[s]))
            IN  IF inserted.ok
                THEN /\ user_assessment_results' = inserted.value
                     /\ call' = [call EXCEPT
                                    !.phase[s] = "committed",
                                    !.overtaken = [t \in Sessions |->
                                                      call.overtaken[t] \/ t \in Overtaken(s)]]
                ELSE /\ call' = [call EXCEPT !.phase[s] = "raised"]
                     /\ UNCHANGED user_assessment_results
    /\ UNCHANGED <<refVars, scenarioresponse, dialect, bundleVars, sessionVars, log>>

\* assessment_result_crud.py:73-74 and 80-81: db.refresh and return
RefreshReturn(s) ==
    /\ call.op = "result" /\ call.phase[s] = "committed"
    /\ call' = [call EXCEPT
                   !.phase[s] = "returned",
                   !.returned[s] = {r \in user_assessment_results : r.userid = call.user[s]}]
    /\ UNCHANGED <<refVars, dbVars, bundleVars, sessionVars, log>>

NextResult == \E s \in Sessions : ReadExisting(s) \/ WriteCommit(s) \/ RefreshReturn(s)

SpecResult == InitResult /\ [][NextResult]_vars

\* the rows the call found for its user when it returned hold the call's result
ReturnedOwn(s) ==
    \A r \in call.returned[s] :
        /\ r.recommended_occupation = call.prediction[s].kazanan_meslek
        /\ r.occupation_compatibility_scores = call.prediction[s].uyum_skorlari

OneRowPerUser ==
    \A u \in Users : Cardinality({r \in user_assessment_results : r.userid = u}) <= 1

=============================================================================
